---- MODULE Spec2Model ----
(***************************************************************************)
(* A model of sitesync's sync engine (internal/sync): the seven-step       *)
(* orchestrator Run, the stages it calls (FetchDump, the find/replace      *)
(* loop, RunHooks, ImportDump, SyncFiles), the subprocess streaming        *)
(* helper streamCmd with its scanner goroutines, the import pipeline       *)
(* (comment stripper, progress reader, stdin copier), the command-line     *)
(* logging with redactArgs, and the serialization-aware rewriter           *)
(* ResilientReplaceLine.                                                   *)
(*                                                                         *)
(* The specifications of the module:                                       *)
(*   Spec         the engine as a state machine of goroutines              *)
(*   SpecBlock    the engine with a consumer that may stop receiving       *)
(*   SpecCred     the log lines that announce the dump/import commands     *)
(*   SpecRewrite  the rewriter as a pure function over bounded inputs      *)
(*   SpecFuzz     the rewriter on damaged values and any search string     *)
(*   SpecFile     ResilientReplaceFile, the rewrite of a file in place     *)
(*   SpecHeadless RunHeadless and its event loop                           *)
(*   SpecPath     the paths Run hands to the import and to the sync tool   *)
(*   SpecLive     Spec with every engine step eventually taken             *)
(*   SpecChunk    scanProgress over the chunks of a sync tool's output     *)
(*   SpecPairs    phase 2, the loop over the replacement pairs             *)
(*   SpecStrip    the comment stripper over the lines of a dump            *)
(***************************************************************************)
EXTENDS Integers, Sequences, FiniteSets, TLC

\* ------------------------------------------------------------------------
\* Bounds of the model
\* ------------------------------------------------------------------------
MaxLines  == 2   \* lines a subprocess writes to each of its pipes
MaxPairs  == 2   \* replacement pairs of the profile
MaxHooks  == 2   \* *.sh scripts found in one hook directory
MaxSync   == 2   \* sync pairs of the profile
MaxChunks == 2   \* SQL chunks (non-comment lines) of the dump artifact
MaxComments == 2 \* full-line /*M! comments of the dump artifact
MaxBuffered == 1 \* capacity of the event channel
MaxContent == 3  \* runes in the content of a serialized value
MaxSearch == 2   \* runes in a search string
MaxFileLines == 2 \* lines of a file rewritten in place
MaxReplace == 2  \* runes in a replacement string

\* ------------------------------------------------------------------------
\* Engine state
\* ------------------------------------------------------------------------
VARIABLES
  op,         \* run operation: "all", "sql", "files"            (Op)
  srcType,    \* cfg.Source.Type, as FetchDump reads it
  nReplace,   \* len(cfg.Replace), as the find/replace step reads it
  nSync,      \* len(cfg.Sync), as SyncFiles reads it
  transport,  \* cfg.Transport.Type, as SyncFiles reads it
  cancelled,  \* ctx.Done() is closed
  cancelAt,   \* number of structural events sent before ctx was cancelled (-1: not cancelled)
  pc,         \* position of Run
  stepNum,    \* loop variable of Run (1..7)
  sub,        \* position inside the running step function
  idx,        \* loop index inside a stage (pair / script index)
  entries,    \* the scripts Glob returned in RunHooks, sorted
  hooksRun,   \* scripts handed to bash so far in the running hook phase
  err,        \* value the step function returned most recently ("" is nil)
  trace,      \* phase-start/done/fail and run-done events sent so far
  lastEv,     \* the event sent most recently on eventCh
  maxProg,    \* largest progress value sent since the last phase-start
  receiving,  \* the consumer of eventCh is still receiving
  buffered,   \* events sitting in the channel buffer since the consumer stopped
  dumpExists, \* the dump artifact exists at dumpPath
  called,     \* steps whose stage function was called (the step was not skipped)
  sc,         \* position inside streamCmd / cmd.Start..cmd.Wait
  scRes,      \* error streamCmd returns ("" is nil)
  proc,       \* subprocess: "none", "running", "exited"
  pipe,       \* unread lines in the stderr / stdout pipe
  wrote,      \* lines the subprocess has written to each pipe
  pclosed,    \* cmd.Wait has closed the parent's pipe ends (unread lines are dropped)
  scan,       \* scanner goroutine per pipe: "off", "run", "done"
  strip,      \* comment-stripper goroutine: "off", "write", "log", "done", "panic"
  copier,     \* os/exec stdin copier running progressReader.Read
  srcLeft,    \* lines of the artifact not yet read or scanned
  mlines,     \* full-line M! comment lines of the artifact
  total,      \* progressReader.total
  rd,         \* progressReader.read
  lastPct,    \* progressReader.lastPct
  pctSent     \* percent values the progressReader of this import has sent so far

engVars == <<op, srcType, nReplace, nSync, transport, cancelled, cancelAt, pc, stepNum, sub,
             idx, entries, hooksRun, err, trace, lastEv, maxProg, receiving, buffered,
             dumpExists, called, sc, scRes, proc,
             pipe, wrote, pclosed, scan, strip, copier, srcLeft, mlines,
             total, rd, lastPct, pctSent>>

\* ------------------------------------------------------------------------
\* State of the command-log and rewriter specifications
\* ------------------------------------------------------------------------
VARIABLES
  credCfg,    \* the profile fields the dump/import argument lists are built from
  credPc,     \* position: "fetch", "import", "end"
  credLog,    \* message of the log event sent most recently
  credStep,   \* step tag of that event
  rwIn,       \* input of ResilientReplaceLine: search, replace, line, option
  rwOut,      \* its result once called, and the line after the serialized passes
  file,       \* a call of ResilientReplaceFile: its arguments, position, files and result
  hl,         \* a headless run: Run started by RunHeadless, the channel, the exit status
  pth,        \* the paths of a run: the artifact's, the reader chosen for it, a sync pair's
  chk,        \* a scanner of streamCmdWithProgress: the output it reads, the events it sent
  rp,         \* the find/replace loop of step 2: its index, the artifact, the progress sent
  stp         \* the comment stripper on a file: the lines it has read, written and counted

credVars == <<credCfg, credPc, credLog, credStep>>
rwVars   == <<rwIn, rwOut>>
fileVars == <<file, hl, pth, chk, rp, stp>>
offEng   == <<credVars, rwVars, fileVars>>

vars == <<engVars, credVars, rwVars, fileVars>>

\* The profile is immutable during a run. A stage's fields are drawn when the
\* stage is entered and forgotten when it returns: no later code reads them.
ctxVars  == <<cancelled, cancelAt>>
locals   == <<srcType, nReplace, nSync, transport, idx, entries, hooksRun>>
evVars   == <<trace, lastEv, maxProg, receiving, buffered>>
subpVars == <<sc, scRes, proc, pipe, wrote, pclosed, scan>>
impVars  == <<strip, copier, srcLeft, mlines, total, rd, lastPct, pctSent>>

Ops      == {"all", "sql", "files"}
SrcTypes == {"local_file", "remote_file", "local_base", "remote_base", "bogus"}
Transports == {"rsync", "lftp"}
Pipes    == {"err", "out"}
Steps    == 1..7

\* Event{Type, Step, Message, Progress}; Progress is the fraction num/den.
Ev(t, s, m, p) == [type |-> t, step |-> s, msg |-> m, prog |-> p]
NoProg        == <<0, 1>>
\* Variants of the event constructors and of the step table that differ from
\* the code; the properties below tell the code from them.
EvStepStartAsLog(s) == Ev("log", s, "", NoProg)
EvDoneAsLog         == Ev("log", 0, "", NoProg)

EvStepStart(s)   == Ev("start", s, "", NoProg)
EvStepDone(s)    == Ev("done", s, "", NoProg)
EvStepFail(s, m) == Ev("fail", s, m, NoProg)
EvLog(s, m)      == Ev("log", s, m, NoProg)
EvProgress(s, p) == Ev("progress", s, "", p)
EvDone           == Ev("rundone", 0, "", NoProg)
NoEvent          == Ev("none", 0, "", NoProg)

Structural == {"start", "done", "fail", "rundone"}

\* p <= q for fractions <<numerator, denominator>>
FracLeq(p, q) == p[1] * q[2] <= q[1] * p[2]

\* A send on eventCh that completes: the event joins the stream. While the
\* consumer receives, the buffer drains and a send never blocks for good; once
\* it has stopped, a send completes only while the buffer has room.
Emit(e) ==
  /\ receiving \/ buffered < MaxBuffered
  /\ buffered' = IF receiving THEN buffered ELSE buffered + 1
  /\ receiving' = receiving
  /\ lastEv' = e
  /\ maxProg' = IF e.type = "start" THEN NoProg
                ELSE IF e.type = "progress" /\ ~FracLeq(e.prog, maxProg) THEN e.prog
                ELSE maxProg
  /\ trace' = IF e.type \in Structural THEN Append(trace, e) ELSE trace

\* sendEvent(ctx, ch, ev): send, or give up once ctx is done.
sendEvent(e) ==
  \/ Emit(e)
  \/ /\ cancelled
     /\ UNCHANGED evVars

\* ------------------------------------------------------------------------
\* Strings as sequences of characters: decimal numbers
\* ------------------------------------------------------------------------
DigitChars == <<"0", "1", "2", "3", "4", "5", "6", "7", "8", "9">>
IsDigit(c) == \E d \in 1..10 : DigitChars[d] = c
DigitVal(c) == (CHOOSE d \in 1..10 : DigitChars[d] = c) - 1

\* strconv.Atoi on a string of digits
RECURSIVE Atoi(_)
Atoi(ds) ==
  IF ds = <<>> THEN 0
  ELSE Atoi(SubSeq(ds, 1, Len(ds) - 1)) * 10 + DigitVal(ds[Len(ds)])

\* fmt's %d
RECURSIVE Itoa(_)
Itoa(n) ==
  IF n < 0 THEN <<"-">> \o Itoa(0 - n)
  ELSE IF n < 10 THEN <<DigitChars[n + 1]>>
  ELSE Itoa(n \div 10) \o <<DigitChars[(n % 10) + 1]>>

\* ------------------------------------------------------------------------
\* Strings as sequences of characters: the path of the dump artifact
\* ------------------------------------------------------------------------
\* strings.HasSuffix(s, t)
HasSuffix(s, t) ==
  Len(s) >= Len(t) /\ SubSeq(s, Len(s) - Len(t) + 1, Len(s)) = t

SqlSuffix == <<".", "s", "q", "l">>
GzSuffix  == <<".", "g", "z">>

\* config.TmpDir()
TmpDir == <<"/", "t">>

\* Names a profile directory may have.
ConfNames == {<<"c">>, <<"c">> \o GzSuffix}

\* filepath.Join(tmpDir, fmt.Sprintf("%s.sql", confName))
DumpFilePath(tmpDir, confName) == tmpDir \o <<"/">> \o confName \o SqlSuffix

\* ------------------------------------------------------------------------
\* Run: the step table and its skip mask (engine.go 32-95)
\* ------------------------------------------------------------------------
skipSQL(o)   == o = "files"
skipFiles(o) == o = "sql"

\* A step table with the two masks exchanged.
SkippedSwapped(o, s) ==
  IF s \in 1..5 THEN skipFiles(o) ELSE skipSQL(o)

\* The step function of step s returns nil at once.
Skipped(o, s) ==
  IF s \in 1..5 THEN skipSQL(o) ELSE skipFiles(o)

\* First position of the stage a step that is not skipped calls.
StageEntry(s) ==
  CASE s = 1 -> "fd_entry"
    [] s = 2 -> "rp_stat"
    [] s \in {3, 5, 7} -> "hk_glob"
    [] s = 4 -> "im_target"
    [] s = 6 -> "sf_entry"

NoLocals ==
  /\ srcType' = "none"
  /\ nReplace' = 0
  /\ nSync' = 0
  /\ transport' = "none"
  /\ idx' = 0
  /\ entries' = <<>>
  /\ hooksRun' = <<>>

\* The step function returns e to Run.
Return(e) ==
  /\ err' = e
  /\ pc' = "after"
  /\ sub' = "none"
  /\ NoLocals

\* The step function goes on at position s.
Goto(s) ==
  /\ sub' = s
  /\ UNCHANGED <<pc, err, locals>>

\* The step function goes on at position s with loop index i.
GotoIdx(s, i) ==
  /\ sub' = s
  /\ idx' = i
  /\ UNCHANGED <<pc, err, srcType, nReplace, nSync, transport, entries, hooksRun>>

ResetCmd ==
  /\ sc' = "off"
  /\ scRes' = ""
  /\ proc' = "none"
  /\ pipe' = [p \in Pipes |-> 0]
  /\ wrote' = [p \in Pipes |-> 0]
  /\ pclosed' = FALSE
  /\ scan' = [p \in Pipes |-> "off"]

\* The caller hands a prepared exec.Cmd to cmd.Start.
Launch ==
  /\ sc' = "start"
  /\ UNCHANGED <<scRes, proc, pipe, wrote, pclosed, scan>>

\* ------------------------------------------------------------------------
\* Run: the orchestrator (engine.go 18-159)
\* ------------------------------------------------------------------------
\* The goroutines and locals of a run that has not begun.
EngineIdle ==
  /\ srcType = "none"
  /\ nReplace = 0
  /\ nSync = 0
  /\ transport = "none"
  /\ cancelled = FALSE
  /\ cancelAt = -1
  /\ pc = "init"
  /\ stepNum = 0
  /\ sub = "none"
  /\ idx = 0
  /\ entries = <<>>
  /\ hooksRun = <<>>
  /\ err = ""
  /\ trace = <<>>
  /\ lastEv = NoEvent
  /\ maxProg = NoProg
  /\ receiving = TRUE
  /\ buffered = 0
  /\ called = {}
  /\ sc = "off"
  /\ scRes = ""
  /\ proc = "none"
  /\ pipe = [p \in Pipes |-> 0]
  /\ wrote = [p \in Pipes |-> 0]
  /\ pclosed = FALSE
  /\ scan = [p \in Pipes |-> "off"]
  /\ strip = "off"
  /\ copier = "off"
  /\ srcLeft = 0
  /\ mlines = 0
  /\ total = 0
  /\ rd = 0
  /\ lastPct = 0
  /\ pctSent = <<>>

\* Run is called with some operation; a dump of an earlier run may be left.
InitEngine ==
  /\ op \in Ops
  /\ dumpExists \in BOOLEAN
  /\ EngineIdle

\* No run: the state of the engine while the other specifications run.
EngineOff ==
  /\ op = "all"
  /\ dumpExists = FALSE
  /\ EngineIdle

\* What the actions of Run itself leave alone.
runFrame == <<op, ctxVars, locals, sub, err, called, subpVars, impVars, offEng>>

\* What the actions of a step function leave alone.
fnFrame == <<op, ctxVars, stepNum, called, offEng>>

\* The context is cancelled from outside (the TUI's q / ctrl+c).
Cancel ==
  /\ ~cancelled
  /\ pc # "closed"
  /\ cancelled' = TRUE
  /\ cancelAt' = Len(trace)
  /\ UNCHANGED <<op, locals, pc, stepNum, sub, err, evVars, dumpExists, called,
                 subpVars, impVars, offEng>>

\* os.MkdirAll(tmpDir): on failure a fail event of step 1 and return.
MkdirAll ==
  /\ pc = "init"
  /\ \/ /\ pc' = "preamble"
        /\ UNCHANGED evVars
     \/ /\ Emit(EvStepFail(1, "cannot create tmp dir"))
        /\ pc' = "closing"
  /\ UNCHANGED <<runFrame, stepNum, dumpExists>>

\* The connection-info log lines, all of step 0; the last one is the empty line.
Preamble ==
  /\ pc = "preamble"
  /\ Emit(EvLog(0, "info"))
  /\ pc' = "boundary"
  /\ stepNum' = 1
  /\ UNCHANGED <<runFrame, dumpExists>>

\* select { case <-ctx.Done(): ... default: } at the head of the loop body.
CtxDone == cancelled

\* Loop head: the cancellation check.
Boundary ==
  /\ pc = "boundary"
  /\ IF CtxDone
       THEN /\ Emit(EvStepFail(stepNum, "cancelled"))
            /\ pc' = "closing"
       ELSE /\ pc' = "start"
            /\ UNCHANGED evVars
  /\ UNCHANGED <<runFrame, stepNum, dumpExists>>

\* eventCh <- Event{Type: EvStepStart, Step: stepNum}
StepStart ==
  /\ pc = "start"
  /\ Emit(EvStepStart(stepNum))
  /\ pc' = "fn"
  /\ UNCHANGED <<runFrame, stepNum, dumpExists>>

\* step.fn() is called: a skipped step returns nil, any other enters its
\* stage, which reads its part of the profile.
StepFn ==
  /\ pc = "fn"
  /\ sub = "none"
  /\ IF Skipped(op, stepNum)
       THEN /\ Return("")
            /\ UNCHANGED called
       ELSE /\ sub' = StageEntry(stepNum)
            /\ called' = called \cup {stepNum}
            /\ srcType' \in IF stepNum = 1 THEN SrcTypes ELSE {"none"}
            /\ nReplace' \in IF stepNum = 2 THEN 0..MaxPairs ELSE {0}
            /\ nSync' \in IF stepNum = 6 THEN 0..MaxSync ELSE {0}
            /\ transport' \in IF stepNum = 6 THEN Transports ELSE {"none"}
            /\ UNCHANGED <<pc, err, idx, entries, hooksRun>>
  /\ UNCHANGED <<op, ctxVars, stepNum, evVars, dumpExists, subpVars,
                 impVars, offEng>>

\* A Run that goes on with the next step after a failed one.
AfterFailContinue(s) ==
  IF s < 7 THEN [pc |-> "boundary", step |-> s + 1] ELSE [pc |-> "closing", step |-> s]

\* Where Run goes after the fail event of step s: it returns.
AfterFail(s) == [pc |-> "closing", step |-> s]

\* step.fn() returned an error: the fail event with err.Error().
StepFailed ==
  /\ pc = "after"
  /\ err # ""
  /\ Emit(EvStepFail(stepNum, err))
  /\ pc' = AfterFail(stepNum).pc
  /\ stepNum' = AfterFail(stepNum).step
  /\ UNCHANGED <<op, ctxVars, locals, sub, err, called, subpVars, impVars,
                 offEng, dumpExists>>

\* step.fn() returned nil: the elapsed-time log line of the step.
StepElapsed ==
  /\ pc = "after"
  /\ err = ""
  /\ Emit(EvLog(stepNum, "elapsed"))
  /\ pc' = "stepdone"
  /\ UNCHANGED <<runFrame, stepNum, dumpExists>>

\* The done event of the step; the loop goes on to the next step.
StepDone ==
  /\ pc = "stepdone"
  /\ Emit(EvStepDone(stepNum))
  /\ IF stepNum < 7
       THEN /\ pc' = "boundary"
            /\ stepNum' = stepNum + 1
       ELSE /\ pc' = "total"
            /\ UNCHANGED stepNum
  /\ UNCHANGED <<runFrame, dumpExists>>

\* After the loop: the "completed in" log line of step 0.
RunTotal ==
  /\ pc = "total"
  /\ Emit(EvLog(0, "completed"))
  /\ pc' = "cleanup"
  /\ UNCHANGED <<runFrame, stepNum, dumpExists>>

\* A cleanup that removes the artifact only after a full run.
RemovesDumpOnlyAll(o) == o = "all"

\* A cleanup that removes the artifact whatever the operation.
RemovesDumpAlways(o) == TRUE

\* if !skipSQL { os.Remove(dumpPath) }
RemovesDump(o) == ~skipSQL(o)

Cleanup ==
  /\ pc = "cleanup"
  /\ dumpExists' = IF RemovesDump(op) THEN FALSE ELSE dumpExists
  /\ pc' = "evdone"
  /\ UNCHANGED <<runFrame, stepNum, evVars>>

\* eventCh <- Event{Type: EvDone}
RunDone ==
  /\ pc = "evdone"
  /\ Emit(EvDone)
  /\ pc' = "closing"
  /\ UNCHANGED <<runFrame, stepNum, dumpExists>>

\* defer close(eventCh)
CloseCh ==
  /\ pc = "closing"
  /\ pc' = "closed"
  /\ UNCHANGED <<runFrame, stepNum, evVars, dumpExists>>

\* ------------------------------------------------------------------------
\* Step 1: FetchDump (database.go 421-459, 520-635)
\* ------------------------------------------------------------------------
\* The switch on cfg.Source.Type and the first log line of its branch.
FetchEntry ==
  /\ pc = "fn"
  /\ sub = "fd_entry"
  /\ IF srcType \in {"local_file", "remote_file", "local_base", "remote_base"}
       THEN /\ sendEvent(EvLog(1, "source"))
            /\ Goto(CASE srcType = "local_file" -> "fd_copy"
                      [] srcType = "local_base" -> "fd_cmd"
                      [] OTHER -> "fd_info")
       ELSE /\ Return("unknown source type")
            /\ UNCHANGED evVars
  /\ UNCHANGED <<fnFrame, dumpExists, subpVars, impVars>>

\* The port line of the remote branches.
FetchInfo ==
  /\ pc = "fn"
  /\ sub = "fd_info"
  /\ sendEvent(EvLog(1, "port"))
  /\ Goto("fd_cmd")
  /\ UNCHANGED <<fnFrame, dumpExists, subpVars, impVars>>

\* copyFile(cfg.Source.File, dumpPath)
FetchCopy ==
  /\ pc = "fn"
  /\ sub = "fd_copy"
  /\ \/ /\ dumpExists' = TRUE
        /\ Goto("fd_stat")
     \/ /\ dumpExists' = dumpExists
        /\ Return("open source file")
  /\ UNCHANGED <<fnFrame, evVars, subpVars, impVars>>

\* The "$ scp ...", "$ ssh ..." or "$ mysqldump ..." line.
FetchCmdLog ==
  /\ pc = "fn"
  /\ sub = "fd_cmd"
  /\ sendEvent(EvLog(1, "command"))
  /\ Goto(IF srcType = "remote_file" THEN "fd_scp" ELSE "fd_create")
  /\ UNCHANGED <<fnFrame, dumpExists, subpVars, impVars>>

\* scpFetch: cmd.CombinedOutput(), no events while scp runs.
FetchScp ==
  /\ pc = "fn"
  /\ sub = "fd_scp"
  /\ \/ /\ cancelled
        /\ Return("scp: context canceled")
        /\ UNCHANGED dumpExists
     \/ /\ ~cancelled
        /\ \/ /\ dumpExists' = TRUE
              /\ Goto("fd_stat")
           \/ /\ dumpExists' \in {dumpExists, TRUE}
              /\ Return("scp: exit status 1")
  /\ UNCHANGED <<fnFrame, evVars, subpVars, impVars>>

\* os.Create(dumpPath), then the command is handed to cmd.Start.
FetchCreate ==
  /\ pc = "fn"
  /\ sub = "fd_create"
  /\ \/ /\ dumpExists' = TRUE
        /\ Launch
        /\ Goto("fd_run")
     \/ /\ Return("create dump file")
        /\ UNCHANGED <<dumpExists, subpVars>>
  /\ UNCHANGED <<fnFrame, evVars, impVars>>

StartErrs == {"context canceled", "exec: not found"}

\* dumpRemoteDB wraps the error of cmd.Start, runDump does not.
FetchErr(t, e) ==
  IF t = "remote_base" /\ e \in StartErrs THEN "ssh start: " \o e ELSE e

\* cmd.Start failed, or cmd.Wait and wg.Wait returned.
FetchRan ==
  /\ pc = "fn"
  /\ sub = "fd_run"
  /\ sc = "ret"
  /\ IF scRes # "" THEN Return(FetchErr(srcType, scRes)) ELSE Goto("fd_stat")
  /\ ResetCmd
  /\ UNCHANGED <<fnFrame, evVars, dumpExists, impVars>>

\* os.Stat(dumpPath) and the dump-size line.
FetchStat ==
  /\ pc = "fn"
  /\ sub = "fd_stat"
  /\ IF dumpExists THEN sendEvent(EvLog(1, "dump size")) ELSE UNCHANGED evVars
  /\ Return("")
  /\ UNCHANGED <<fnFrame, dumpExists, subpVars, impVars>>

\* ------------------------------------------------------------------------
\* Step 2: the find/replace loop (engine.go 45-64)
\* ------------------------------------------------------------------------
ReplaceStat ==
  /\ pc = "fn"
  /\ sub = "rp_stat"
  /\ IF dumpExists THEN Emit(EvLog(2, "processing")) ELSE UNCHANGED evVars
  /\ Goto("rp_loop")
  /\ UNCHANGED <<fnFrame, dumpExists, subpVars, impVars>>

\* for i, pair := range cfg.Replace: the "[i/n]" line, sent unconditionally.
ReplaceLoop ==
  /\ pc = "fn"
  /\ sub = "rp_loop"
  /\ IF idx < nReplace
       THEN /\ Emit(EvLog(2, "pair"))
            /\ Goto("rp_file")
       ELSE /\ Return("")
            /\ UNCHANGED evVars
  /\ UNCHANGED <<fnFrame, dumpExists, subpVars, impVars>>

\* ResilientReplaceFile(search, replace, dumpPath, ReplaceOptions{})
ReplaceFile ==
  /\ pc = "fn"
  /\ sub = "rp_file"
  /\ IF dumpExists
       THEN Goto("rp_prog")
       ELSE Return("replace: open")
  /\ UNCHANGED <<fnFrame, evVars, dumpExists, subpVars, impVars>>

\* The progress event (i+1)/len(cfg.Replace), sent unconditionally.
ReplaceProgress ==
  /\ pc = "fn"
  /\ sub = "rp_prog"
  /\ Emit(EvProgress(2, <<idx + 1, nReplace>>))
  /\ GotoIdx("rp_loop", idx + 1)
  /\ UNCHANGED <<fnFrame, dumpExists, subpVars, impVars>>

\* ------------------------------------------------------------------------
\* Steps 3, 5, 7: RunHooks (hooks.go 17-39)
\* ------------------------------------------------------------------------
\* The *.sh files a hook directory may hold, each known by the number that is
\* its base name: 9.sh, 10.sh, ...
HookFiles == {8 + k : k \in 1..MaxHooks}

\* filepath.Base(script)
ScriptName(k) == ToString(k) \o ".sh"

\* a < b as Go compares strings, for strings of digits
RECURSIVE LexLess(_, _)
LexLess(a, b) ==
  IF b = <<>> THEN FALSE
  ELSE IF a = <<>> THEN TRUE
  ELSE IF DigitVal(Head(a)) # DigitVal(Head(b)) THEN DigitVal(Head(a)) < DigitVal(Head(b))
  ELSE LexLess(Tail(a), Tail(b))

\* The path of script a sorts before the path of script b: same directory,
\* same suffix, and "." sorts before every digit.
PathLess(a, b) == LexLess(Itoa(a), Itoa(b))

\* The orders in which Glob may return the files S.
GlobOrders(S) ==
  {g \in [1..Cardinality(S) -> S] : \A i, j \in DOMAIN g : i # j => g[i] # g[j]}

\* A RunHooks that runs the scripts in the order Glob returned them.
GlobOrder(g) == g

\* sort.Strings(entries)
SortStrings(g) ==
  CHOOSE s \in GlobOrders({g[i] : i \in DOMAIN g}) :
    \A i, j \in DOMAIN s : i < j => PathLess(s[i], s[j])

\* filepath.Glob: no script, or an error, returns nil.
HookGlob ==
  /\ pc = "fn"
  /\ sub = "hk_glob"
  /\ \E S \in SUBSET HookFiles : \E g \in GlobOrders(S) :
       IF g = <<>>
         THEN Return("")
         ELSE /\ sub' = "hk_log"
              /\ entries' = SortStrings(g)
              /\ UNCHANGED <<pc, err, srcType, nReplace, nSync, transport, idx, hooksRun>>
  /\ UNCHANGED <<fnFrame, evVars, dumpExists, subpVars, impVars>>

\* The "running hook" line, sent unconditionally, then cmd handed to streamCmd.
HookLog ==
  /\ pc = "fn"
  /\ sub = "hk_log"
  /\ Emit(EvLog(stepNum, "running hook: " \o ScriptName(entries[idx + 1])))
  /\ Launch
  /\ sub' = "hk_run"
  /\ hooksRun' = Append(hooksRun, entries[idx + 1])
  /\ UNCHANGED <<pc, err, srcType, nReplace, nSync, transport, idx, entries>>
  /\ UNCHANGED <<fnFrame, dumpExists, impVars>>

\* fmt.Errorf("hook %s failed: %w", filepath.Base(script), err)
HookErr(k, e) == "hook " \o ScriptName(k) \o " failed: " \o e

HookRan ==
  /\ pc = "fn"
  /\ sub = "hk_run"
  /\ sc = "ret"
  /\ IF scRes # ""
       THEN Return(HookErr(entries[idx + 1], scRes))
       ELSE IF idx + 1 < Len(entries)
              THEN GotoIdx("hk_log", idx + 1)
              ELSE Return("")
  /\ ResetCmd
  /\ UNCHANGED <<fnFrame, evVars, dumpExists, impVars>>

\* A hook script receives sqlfile=dumpPath and may delete or rewrite the file.
HookTouchesDump ==
  /\ pc = "fn"
  /\ sub = "hk_run"
  /\ proc = "running"
  /\ dumpExists' = ~dumpExists
  /\ UNCHANGED <<fnFrame, locals, pc, sub, err, evVars, subpVars, impVars>>

\* ------------------------------------------------------------------------
\* Step 4: ImportDump (database.go 462-517)
\* ------------------------------------------------------------------------
ImportTarget ==
  /\ pc = "fn"
  /\ sub = "im_target"
  /\ sendEvent(EvLog(4, "target"))
  /\ Goto("im_open")
  /\ UNCHANGED <<fnFrame, dumpExists, subpVars, impVars>>

\* os.Open(dumpPath) and f.Stat(): the artifact holds some SQL chunks and some
\* full-line M! comments; its size is their sum.
ImportOpen ==
  /\ pc = "fn"
  /\ sub = "im_open"
  /\ IF dumpExists
       THEN /\ \E c \in 0..MaxChunks, m \in 0..MaxComments :
                 /\ srcLeft' = c
                 /\ mlines' = m
                 /\ total' = c + m
            /\ Goto("im_size")
       ELSE /\ Return("open dump file")
            /\ UNCHANGED <<srcLeft, mlines, total>>
  /\ UNCHANGED <<fnFrame, evVars, dumpExists, subpVars, strip, copier, rd,
                 lastPct, pctSent>>

\* strings.HasSuffix(dumpPath, ".gz") with the dumpPath Run derives: no profile
\* name makes it true, the gzip branch of ImportDump is not taken.
DumpPathIsGz == \E c \in ConfNames : HasSuffix(DumpFilePath(TmpDir, c), GzSuffix)

ImportSize ==
  /\ pc = "fn"
  /\ sub = "im_size"
  /\ ~DumpPathIsGz
  /\ sendEvent(EvLog(4, "dump size"))
  /\ Goto("im_maria")
  /\ UNCHANGED <<fnFrame, dumpExists, subpVars, impVars>>

\* Where the stripper goroutine stops next with n lines left to scan and m
\* comment lines counted: in pw.Write with the next line, at its log line, or
\* at its end. Scanning a line touches nothing but the goroutine's own buffer.
StripNext(n, m) == IF n > 0 THEN "write" ELSE IF m > 0 THEN "log" ELSE "done"
StripLeft(n)    == IF n > 0 THEN n - 1 ELSE 0

\* isMariaDBDump looks for "/*M!" in the first 8 KB: a comment further down is
\* not seen (d is FALSE), an inline comment is (d is TRUE with no full line).
\* When it reports TRUE the stripper goroutine is started.
ImportMaria ==
  /\ pc = "fn"
  /\ sub = "im_maria"
  /\ \E d \in BOOLEAN :
       IF d
         THEN /\ sendEvent(EvLog(4, "detected MariaDB dump"))
              /\ strip' = StripNext(srcLeft, mlines)
              /\ srcLeft' = StripLeft(srcLeft)
              /\ UNCHANGED mlines
         ELSE /\ srcLeft' = srcLeft + mlines
              /\ mlines' = 0
              /\ UNCHANGED <<evVars, strip>>
  /\ Goto("im_cmd")
  /\ UNCHANGED <<fnFrame, dumpExists, subpVars, copier, total, rd, lastPct, pctSent>>

\* The "$ mysql ..." line built with redactArgs, then streamCmd(..., true).
ImportCmdLog ==
  /\ pc = "fn"
  /\ sub = "im_cmd"
  /\ sendEvent(EvLog(4, "command"))
  /\ Launch
  /\ Goto("im_run")
  /\ UNCHANGED <<fnFrame, dumpExists, impVars>>

\* streamCmd returned; ImportDump returns its error. Nothing waits for the
\* stripper goroutine.
ImportRan ==
  /\ pc = "fn"
  /\ sub = "im_run"
  /\ sc = "ret"
  /\ Return(scRes)
  /\ ResetCmd
  /\ copier' = "off"
  /\ total' = 0
  /\ rd' = 0
  /\ lastPct' = 0
  /\ pctSent' = <<>>
  /\ IF strip \in {"off", "done"}
       THEN strip' = "off" /\ srcLeft' = 0 /\ mlines' = 0
       ELSE UNCHANGED <<strip, srcLeft, mlines>>
  /\ UNCHANGED <<fnFrame, evVars, dumpExists>>

\* ------------------------------------------------------------------------
\* Step 6: SyncFiles (files.go 18-107)
\* ------------------------------------------------------------------------
\* The line SyncFiles logs when no pair is configured.
NoPairsLog == EvLog(6, "No sync pairs configured, skipping file sync")

\* A SyncFiles without the check for an empty pair list.
SyncEntryUnchecked ==
  /\ pc = "fn"
  /\ sub = "sf_entry"
  /\ Goto("sf_log")
  /\ UNCHANGED <<fnFrame, evVars, dumpExists, subpVars, impVars>>

SyncEntry ==
  /\ pc = "fn"
  /\ sub = "sf_entry"
  /\ IF nSync = 0
       THEN /\ sendEvent(NoPairsLog)
            /\ Return("")
       ELSE /\ Goto("sf_log")
            /\ UNCHANGED evVars
  /\ UNCHANGED <<fnFrame, dumpExists, subpVars, impVars>>

\* The "$ rsync ..." or "$ lftp -c '...'" line of the pair.
SyncLog ==
  /\ pc = "fn"
  /\ sub = "sf_log"
  /\ sendEvent(EvLog(6, "command"))
  /\ IF transport = "lftp"
       THEN /\ Goto("sf_script")
            /\ UNCHANGED subpVars
       ELSE /\ Launch
            /\ Goto("sf_run")
  /\ UNCHANGED <<fnFrame, dumpExists, impVars>>

\* syncLFTP logs the script with the password left out.
SyncScriptLog ==
  /\ pc = "fn"
  /\ sub = "sf_script"
  /\ sendEvent(EvLog(6, "script"))
  /\ Launch
  /\ Goto("sf_run")
  /\ UNCHANGED <<fnFrame, dumpExists, impVars>>

SyncRan ==
  /\ pc = "fn"
  /\ sub = "sf_run"
  /\ sc = "ret"
  /\ IF scRes # ""
       THEN Return((IF transport = "lftp" THEN "lftp: " ELSE "rsync: ") \o scRes)
       ELSE IF idx + 1 < nSync
              THEN GotoIdx("sf_log", idx + 1)
              ELSE Return("")
  /\ ResetCmd
  /\ UNCHANGED <<fnFrame, evVars, dumpExists, impVars>>

\* ------------------------------------------------------------------------
\* streamCmd, streamCmdWithProgress and the dump helpers' copy of them
\* (database.go 572-597, 710-744; files.go 174-239)
\* ------------------------------------------------------------------------
procFrame == <<op, ctxVars, locals, pc, stepNum, sub, err, dumpExists, called,
               offEng>>

\* Pipes the caller attaches a scanner to: the dump helpers send stdout to the
\* artifact and ImportDump passes stderrOnly.
UsedPipes == IF stepNum \in {1, 4} THEN {"err"} ELSE Pipes

\* mysql.Stdin = reader: os/exec runs a copier goroutine for it.
HasStdin == stepNum = 4

\* SyncFiles' default branch runs streamCmdWithProgress.
ProgressMode == stepNum = 6 /\ transport # "lftp"

\* Percentages an rsync progress line may carry (reRsyncProgress is (\d+)%).
RsyncPcts == {50, 150}

\* cmd.Start: with ctx already done it returns ctx.Err() and starts nothing.
CmdStart ==
  /\ sc = "start"
  /\ \/ /\ cancelled
        /\ sc' = "ret"
        /\ scRes' = "context canceled"
        /\ UNCHANGED <<proc, scan, copier>>
     \/ /\ sc' = "ret"
        /\ scRes' = "exec: not found"
        /\ UNCHANGED <<proc, scan, copier>>
     \/ /\ ~cancelled
        /\ sc' = "wait"
        /\ proc' = "running"
        /\ scan' = [p \in Pipes |-> IF p \in UsedPipes THEN "run" ELSE "off"]
        /\ copier' = IF HasStdin THEN "read" ELSE "off"
        /\ UNCHANGED scRes
  /\ UNCHANGED <<procFrame, evVars, pipe, wrote, pclosed, strip, srcLeft,
                 mlines, total, rd, lastPct, pctSent>>

\* The subprocess writes a line to one of its pipes.
ProcWrite(p) ==
  /\ proc = "running"
  /\ p \in UsedPipes
  /\ wrote[p] < MaxLines
  /\ wrote' = [wrote EXCEPT ![p] = @ + 1]
  /\ pipe' = [pipe EXCEPT ![p] = @ + 1]
  /\ UNCHANGED <<procFrame, evVars, sc, scRes, proc, pclosed, scan,
                 impVars>>

\* The subprocess exits, by itself at any point or killed once ctx is done.
ProcExit ==
  /\ proc = "running"
  /\ proc' = "exited"
  /\ wrote' = [p \in Pipes |-> 0]
  /\ UNCHANGED <<procFrame, evVars, sc, scRes, pipe, pclosed, scan, impVars>>

\* A progress value computed without the cap at 1.0.
RsyncProgressUncapped(i, n, pct) == <<i * 100 + pct, n * 100>>

\* p := baseProgress + pct/100*sliceSize, capped at 1.0, as the fraction of
\* 100*total it is.
RsyncProgress(i, n, pct) ==
  IF i * 100 + pct > n * 100 THEN <<n * 100, n * 100>> ELSE <<i * 100 + pct, n * 100>>

\* The event a scanner sends for a line; pct is the percentage an rsync
\* progress line carries, -1 for any other line.
LineEvent(pct) ==
  IF pct >= 0
    THEN EvProgress(stepNum, RsyncProgress(idx, nSync, pct))
    ELSE EvLog(stepNum, "line")

\* sc.Scan() returns a line and the scanner sends its event.
ScanLine(p) ==
  /\ scan[p] = "run"
  /\ ~pclosed
  /\ pipe[p] > 0
  /\ pipe' = [pipe EXCEPT ![p] = @ - 1]
  /\ \E pct \in IF ProgressMode THEN RsyncPcts \cup {-1} ELSE {-1} :
       sendEvent(LineEvent(pct))
  /\ UNCHANGED <<procFrame, sc, scRes, proc, wrote, pclosed, scan, impVars>>

\* sc.Scan() returns false: end of file once the subprocess has exited and the
\* pipe is drained, or a read error once cmd.Wait has closed the pipe.
ScanEnd(p) ==
  /\ scan[p] = "run"
  /\ \/ pclosed
     \/ proc = "exited" /\ pipe[p] = 0
  /\ scan' = [scan EXCEPT ![p] = "done"]
  /\ UNCHANGED <<procFrame, evVars, sc, scRes, proc, pipe, wrote,
                 pclosed, impVars>>

\* The error cmd.Wait returns for an exited subprocess: nil or its exit
\* status, and once ctx is done also the kill signal or ctx.Err().
WaitErrs ==
  IF cancelled
    THEN {"", "exit status 1", "signal: killed", "context canceled"}
    ELSE {"", "exit status 1"}

\* A Wait that returns while the subprocess still runs.
WaitReturnsEarly == proc # "none"

\* cmd.Wait blocks until the subprocess has exited.
ProcessExited == proc = "exited"

\* cmd.Wait returns: the subprocess has exited and the stdin copier is done;
\* Wait closes the parent's ends of the pipes, and what is unread is gone.
CmdWait ==
  /\ sc = "wait"
  /\ ProcessExited
  /\ copier \in {"off", "done"}
  /\ sc' = "join"
  /\ pclosed' = TRUE
  /\ pipe' = [p \in Pipes |-> 0]
  /\ scRes' \in WaitErrs
  /\ UNCHANGED <<procFrame, evVars, proc, wrote, scan, impVars>>

\* wg.Wait returns: every scanner goroutine has called wg.Done.
WgWait ==
  /\ sc = "join"
  /\ \A p \in UsedPipes : scan[p] = "done"
  /\ sc' = "ret"
  /\ UNCHANGED <<procFrame, evVars, scRes, proc, pipe, wrote,
                 pclosed, scan, impVars>>

\* ------------------------------------------------------------------------
\* The import pipeline: stripper -> progressReader -> stdin copier
\* (database.go 762-772, 785-816)
\* ------------------------------------------------------------------------
\* int(float64(read) / float64(total) * 100)
Pct(r, t) == (r * 100) \div t

\* A progress meter that sends at every read.
ShouldSendAlways(pct, last) == pct <= 100

\* if pct != pr.lastPct && pct <= 100
ShouldSend(pct, last) == pct # last /\ pct <= 100

\* progressReader.Read after n more units were read; without a progressReader
\* (fileSize = 0) nothing is counted or sent.
ReaderProgress(n) ==
  IF total > 0
    THEN /\ rd' = rd + n
         /\ IF ShouldSend(Pct(rd + n, total), lastPct)
              THEN /\ lastPct' = Pct(rd + n, total)
                   /\ pctSent' = Append(pctSent, Pct(rd + n, total))
                   /\ sendEvent(EvProgress(4, <<Pct(rd + n, total), 100>>))
              ELSE UNCHANGED <<lastPct, pctSent, evVars>>
    ELSE UNCHANGED <<rd, lastPct, pctSent, evVars>>

\* What the stripper hands on for a line of one unit: the line and a newline.
\* The last line of an artifact that does not end in a newline gets one, and
\* the reader then counts more than the file holds.
StripUnits(left) == IF left = 0 THEN {1, 2} ELSE {1}

\* The copier reads from its source: the file, or the stripper's pipe, where
\* it takes the line the stripper is writing or sees the closed pipe.
CopierRead ==
  /\ copier = "read"
  /\ \/ /\ strip = "off"
        /\ srcLeft > 0
        /\ srcLeft' = srcLeft - 1
        /\ copier' = "write"
        /\ ReaderProgress(1)
        /\ UNCHANGED strip
     \/ /\ strip = "write"
        /\ strip' = StripNext(srcLeft, mlines)
        /\ srcLeft' = StripLeft(srcLeft)
        /\ copier' = "write"
        /\ \E n \in StripUnits(srcLeft) : ReaderProgress(n)
     \/ /\ \/ strip = "off" /\ srcLeft = 0
           \/ strip = "done"
        /\ copier' = "done"
        /\ ReaderProgress(0)
        /\ UNCHANGED <<strip, srcLeft>>
  /\ UNCHANGED <<procFrame, subpVars, mlines, total>>

\* The copier writes to the subprocess's stdin; a broken pipe ends the copy
\* and os/exec ignores that error.
CopierWrite ==
  /\ copier = "write"
  /\ copier' = IF proc = "exited" THEN "done" ELSE "read"
  /\ UNCHANGED <<procFrame, evVars, subpVars, strip, srcLeft, mlines, total,
                 rd, lastPct, pctSent>>

\* logFn("stripped n MariaDB-specific comment line(s)"), then the deferred
\* pw.Close(). A send on the closed channel panics. Once ImportDump has
\* returned nothing reads the pipe and the ended goroutine is forgotten.
StripLog ==
  /\ strip = "log"
  /\ IF pc = "closed"
       THEN \/ /\ strip' = "panic"
               /\ UNCHANGED evVars
            \/ /\ cancelled
               /\ strip' = "off"
               /\ UNCHANGED evVars
       ELSE /\ sendEvent(EvLog(4, "stripped"))
            /\ strip' = IF sub \in {"im_cmd", "im_run"} THEN "done" ELSE "off"
  /\ mlines' = 0
  /\ UNCHANGED <<procFrame, subpVars, copier, srcLeft, total, rd, lastPct, pctSent>>

\* ------------------------------------------------------------------------
\* The engine specification
\* ------------------------------------------------------------------------
NoCfg == [srcType |-> "none", srcUser |-> <<>>, srcPw |-> <<>>, dstPw |-> <<>>]
NoRw  == [search |-> <<>>, replace |-> <<>>, only |-> FALSE, pre |-> <<>>,
          esc |-> FALSE, content |-> <<>>, post |-> <<>>, form |-> "exact", line |-> <<>>]
NoOut == [done |-> FALSE, unesc |-> <<>>, serial |-> <<>>, line |-> <<>>]

CredOff ==
  /\ credCfg = NoCfg
  /\ credPc = "off"
  /\ credLog = <<>>
  /\ credStep = 0

RwOff ==
  /\ rwIn = NoRw
  /\ rwOut = NoOut

NoFile == [regex |-> FALSE, search |-> <<>>, n |-> 0, pc |-> "off", left |-> 0, out |-> 0,
           tmp |-> FALSE, orig |-> "old", stream |-> "none", res |-> "none"]

NoHeadless == [op |-> "all", nSync |-> 0, pc |-> "off", toSend |-> 0, ch |-> <<>>,
               closed |-> FALSE, lastErr |-> "", sawDone |-> FALSE, res |-> "none",
               exit |-> "none"]

NoPath == [srcType |-> "none", file |-> <<>>, conf |-> <<>>, src |-> <<>>, dst |-> <<>>,
           transport |-> "none", pc |-> "off", dumpPath |-> <<>>, gz |-> FALSE,
           reader |-> "none", toolSrc |-> <<>>, toolDst |-> <<>>]

NoChunk == [data |-> <<>>, pos |-> 0, cancelled |-> FALSE, out |-> <<>>, pc |-> "off"]

NoPairs == [n |-> 0, lines |-> 0, i |-> 0, pc |-> "off", art |-> <<>>, progs |-> <<>>,
            res |-> "none"]

NoStrip == [lines |-> <<>>, pos |-> 0, out |-> <<>>, stripped |-> 0, logged |-> -1,
            pc |-> "off"]

\* No scanner, no find/replace loop and no stripper on its own.
StagesOff ==
  /\ chk = NoChunk
  /\ rp = NoPairs
  /\ stp = NoStrip

FileOff ==
  /\ file = NoFile
  /\ hl = NoHeadless
  /\ pth = NoPath
  /\ StagesOff

Init ==
  /\ InitEngine
  /\ CredOff
  /\ RwOff
  /\ FileOff

Next ==
  \/ Cancel
  \/ MkdirAll
  \/ Preamble
  \/ Boundary
  \/ StepStart
  \/ StepFn
  \/ StepFailed
  \/ StepElapsed
  \/ StepDone
  \/ RunTotal
  \/ Cleanup
  \/ RunDone
  \/ CloseCh
  \/ FetchEntry
  \/ FetchInfo
  \/ FetchCopy
  \/ FetchCmdLog
  \/ FetchScp
  \/ FetchCreate
  \/ FetchRan
  \/ FetchStat
  \/ ReplaceStat
  \/ ReplaceLoop
  \/ ReplaceFile
  \/ ReplaceProgress
  \/ HookGlob
  \/ HookLog
  \/ HookRan
  \/ HookTouchesDump
  \/ ImportTarget
  \/ ImportOpen
  \/ ImportSize
  \/ ImportMaria
  \/ ImportCmdLog
  \/ ImportRan
  \/ SyncEntry
  \/ SyncLog
  \/ SyncScriptLog
  \/ SyncRan
  \/ CmdStart
  \/ \E p \in Pipes : ProcWrite(p)
  \/ ProcExit
  \/ \E p \in Pipes : ScanLine(p)
  \/ \E p \in Pipes : ScanEnd(p)
  \/ CmdWait
  \/ WgWait
  \/ CopierRead
  \/ CopierWrite
  \/ StripLog

Spec == Init /\ [][Next]_vars

\* ------------------------------------------------------------------------
\* Properties of the engine's event stream
\* ------------------------------------------------------------------------
Sent(ty) == {i \in DOMAIN trace : trace[i].type = ty}

\* start(1), done(1), ..., start(7), done(7)
FullSeq ==
  [i \in 1..14 |-> IF i % 2 = 1 THEN EvStepStart((i + 1) \div 2)
                                ELSE EvStepDone(i \div 2)]

\* C1: events of step i all precede events of step j > i: once a start, done
\* or fail event of a step has been sent, no event tagged with an earlier step
\* (1..7) is sent, be it from a scanner, the progress reader or the stripper.
C1_PhaseOrder ==
  lastEv.step >= 1 => \A i \in DOMAIN trace : trace[i].step <= lastEv.step

C8_FullSequence ==
  (pc = "closed" /\ Sent("fail") = {}) =>
     /\ Len(trace) >= 14
     /\ \A i \in 1..7 : /\ trace[2 * i - 1] = EvStepStart(i)
                        /\ trace[2 * i] = EvStepDone(i)

C8_Witness ==
  /\ pc = "closed"
  /\ op = "files"
  /\ ~cancelled
  /\ Sent("fail") = {}
  /\ called = {6, 7}

\* C9: under files, steps 1..5 call no stage, launch no subprocess and do not
\* touch the dump; under sql, steps 6 and 7 call neither SyncFiles nor the
\* after hooks; steps 6 and 7 do their work exactly under all and files.
C9_SkipMask ==
  /\ op = "files" => called \cap (1..5) = {}
  /\ op = "sql" => called \cap {6, 7} = {}
  /\ (\/ op = "files" /\ stepNum \in 1..5
      \/ op = "sql" /\ stepNum \in {6, 7})
       => sub = "none" /\ sc = "off" /\ proc = "none" /\ copier = "off"
  /\ \A s \in {6, 7} :
       (op \in {"all", "files"} /\ EvStepDone(s) \in {trace[i] : i \in DOMAIN trace})
         => s \in called

C9_Witness ==
  /\ op = "sql"
  /\ pc = "closed"
  /\ Sent("rundone") # {}
  /\ called = 1..5
  /\ stepNum = 7

\* C10 as stated: once ctx is cancelled no step is started or completed and
\* run-done is not sent.
C10_CancelStops ==
  cancelAt >= 0 =>
    \A i \in DOMAIN trace :
      i > cancelAt => trace[i].type \notin {"start", "done", "rundone"}

\* C12 as stated: streamCmd returns only once the subprocess has been waited
\* on and every scanner has ended, and no line the subprocess wrote is lost:
\* when cmd.Wait closes the pipes nothing unread is left in them.
C12_DrainedOnReturn ==
  [][ /\ (sc = "wait" /\ sc' = "join") => \A p \in Pipes : pipe[p] = 0
      /\ (sc = "join" /\ sc' = "ret") =>
            proc = "exited" /\ \A p \in UsedPipes : scan[p] = "done" ]_vars

\* C19 as stated: a profile whose source type is none of the four known ones
\* is rejected before step 1: no phase-start is sent and no stage function runs.
C19_UnknownTypeRejected ==
  srcType = "bogus" => Sent("start") = {} /\ called = {}

\* C20 as stated: within a phase the progress values sent never go down: a
\* progress event carries at least the largest value sent earlier in its phase.
C20_ProgressMonotonic ==
  lastEv.type = "progress" => FracLeq(maxProg, lastEv.prog)

\* C21: every progress event carries a value in [0, 1]: the rsync percentage
\* is capped at 1.0 whatever rsync prints, and the import meter sends nothing
\* once more has been read than the artifact's size.
C21_ProgressInUnit ==
  lastEv.type = "progress" =>
    /\ lastEv.prog[2] > 0
    /\ FracLeq(<<0, 1>>, lastEv.prog)
    /\ FracLeq(lastEv.prog, <<1, 1>>)

\* The last pair's rsync printed a percentage above 100 and the cap applied.
C21_Witness ==
  /\ lastEv = EvProgress(6, <<100, 100>>)
  /\ sub = "sf_run"
  /\ nSync = 1
  /\ proc = "running"

\* The import meter has read more than the artifact's size.
C21_OverRead == rd > total /\ total > 0 /\ sub = "im_run"

\* The scripts run so far are the first ones of the directory in
\* lexicographic order, none skipped; a script is handed to bash only when no
\* subprocess of the phase is left, and a subprocess of a hook phase runs only
\* while RunHooks waits for it.
C22_InOrder ==
  /\ \A i, j \in DOMAIN hooksRun : i < j => PathLess(hooksRun[i], hooksRun[j])
  /\ \A i \in DOMAIN hooksRun : \A j \in DOMAIN entries :
       (\A l \in DOMAIN hooksRun : hooksRun[l] # entries[j])
          => PathLess(hooksRun[i], entries[j])
  /\ sub = "hk_log" => sc = "off" /\ proc = "none"
  /\ (stepNum \in {3, 5, 7} /\ proc # "none") => sub = "hk_run" /\ hooksRun # <<>>

\* A script that failed ends RunHooks with an error naming it.
C22_FailNamed ==
  (sub = "hk_run" /\ sc = "ret" /\ scRes # "" /\ sub' # sub) =>
     /\ sub' = "none"
     /\ pc' = "after"
     /\ err' = "hook " \o ScriptName(hooksRun[Len(hooksRun)]) \o " failed: " \o scRes

\* Once a hook phase has returned an error Run is on its way out: the fail
\* event with that error, and nothing launched again.
C22_Aborts ==
  (stepNum \in {3, 5, 7} /\ err # "" /\ pc # "fn") =>
     /\ pc \in {"after", "closing", "closed"}
     /\ sub = "none" /\ sc = "off" /\ proc = "none"
     /\ pc # "after" => trace[Len(trace)] = EvStepFail(stepNum, err)

FetchWrites ==
  stepNum = 1 /\ (sub \in {"fd_copy", "fd_scp"} \/ (sub = "fd_run" /\ proc = "running"))
ReplaceWrites == sub = "rp_file"
HookWrites == stepNum \in {3, 5, 7} /\ proc = "running"

Writers ==
  {w \in {"fetch", "replace", "hook"} :
     \/ w = "fetch" /\ FetchWrites
     \/ w = "replace" /\ ReplaceWrites
     \/ w = "hook" /\ HookWrites}

\* The sync screen lets the user leave, and start another run, once m.done or
\* m.failed is set: a fail or run-done event was received, or the channel
\* was found closed.
TuiMayLeave == Sent("fail") # {} \/ Sent("rundone") # {} \/ pc = "closed"

\* C23: at most one party writes the artifact at a time: a subprocess lives
\* only while the step function that launched it waits for it, and once the
\* TUI may leave the sync screen nothing of the run writes or runs any more.
C23_OneWriter ==
  /\ Cardinality(Writers) <= 1
  /\ proc = "running" =>
       pc = "fn" /\ sc = "wait" /\ sub \in {"fd_run", "hk_run", "im_run", "sf_run"}
  /\ TuiMayLeave => Writers = {} /\ proc # "running" /\ sub = "none"

\* A before hook runs on the artifact that step 1 fetched and step 2 rewrote.
C23_Witness ==
  /\ HookWrites
  /\ stepNum = 3
  /\ dumpExists
  /\ called = {1, 2, 3}
  /\ ~cancelled

\* SyncFiles with no pair takes its next step.
EmptySyncStep == sub = "sf_entry" /\ nSync = 0 /\ sub' # sub

\* C26 as stated: with an empty pair list step 6 launches nothing, sends
\* exactly one log event and no progress event, and returns nil.
C26_EmptySyncOneLog ==
  [][EmptySyncStep =>
       /\ sub' = "none" /\ pc' = "after" /\ err' = ""
       /\ sc' = "off" /\ proc' = "none"
       /\ lastEv # NoPairsLog /\ lastEv' = NoPairsLog]_vars

\* C26: with an empty pair list step 6 launches nothing, sends no progress
\* event and returns nil, for either transport; it sends its one log event,
\* unless ctx is done, when sendEvent may give the event up.
C26_EmptySync ==
  [][EmptySyncStep =>
       /\ sub' = "none" /\ pc' = "after" /\ err' = ""
       /\ sc' = "off" /\ proc' = "none"
       /\ \/ lastEv # NoPairsLog /\ lastEv' = NoPairsLog
          \/ cancelled /\ UNCHANGED evVars]_vars

\* SyncFiles returned nil right after its log line, with no pair configured.
C26_Witness ==
  /\ pc = "after"
  /\ stepNum = 6
  /\ err = ""
  /\ lastEv = NoPairsLog
  /\ 6 \in called

\* The errors cmd.Start and cmd.Wait return because ctx is done, and what the
\* step functions make of an error e of their subprocess.
CtxErrs == {"signal: killed", "context canceled"}
StepErrs(e) ==
  {e, "ssh start: " \o e, "scp: " \o e, "rsync: " \o e, "lftp: " \o e}
    \cup {HookErr(k, e) : k \in HookFiles}

\* The fail message reports a cancellation: the one of the boundary check, or
\* the error of a subprocess that ctx interrupted.
ReportsCancel(m) == m = "cancelled" \/ \E e \in CtxErrs : m \in StepErrs(e)

\* C27 as stated: the fail event of a run that cancellation aborted carries
\* the message "cancelled", at a phase boundary and inside a phase alike.
C27_CancelMessage ==
  \A i \in Sent("fail") :
    (cancelAt >= 0 /\ i > cancelAt /\ ReportsCancel(trace[i].msg))
       => trace[i].msg = "cancelled"

\* C29 as stated: once Run has closed the channel no goroutine a phase started
\* can still send on it: every scanner and the stdin copier with its progress
\* meter have ended, and the stripper is not at its log line.
C29_NoSendAfterClose ==
  pc = "closed" =>
    /\ \A p \in Pipes : scan[p] # "run"
    /\ copier \notin {"read", "write"}
    /\ strip \notin {"log", "panic"}

\* C30 as stated: every done or fail event of a step is preceded by a start
\* event of that step with no other done or fail event of the step between
\* the two, the fail events of the boundary check and of MkdirAll included.
C30_StartBeforeEnd ==
  \A i \in Sent("done") \cup Sent("fail") :
    \E j \in 1..(i - 1) :
      /\ trace[j] = EvStepStart(trace[i].step)
      /\ \A k \in (j + 1)..(i - 1) :
           ~(trace[k].type \in {"done", "fail"} /\ trace[k].step = trace[i].step)

\* The steps of the run's own goroutines and of its subprocesses' ends: all
\* of Next but what the user (Cancel) and a running subprocess (a line it
\* writes, a hook script touching the artifact) choose to do.
EngineStep ==
  \/ MkdirAll \/ Preamble \/ Boundary \/ StepStart \/ StepFn \/ StepFailed
  \/ StepElapsed \/ StepDone \/ RunTotal \/ Cleanup \/ RunDone \/ CloseCh
  \/ FetchEntry \/ FetchInfo \/ FetchCopy \/ FetchCmdLog \/ FetchScp
  \/ FetchCreate \/ FetchRan \/ FetchStat
  \/ ReplaceStat \/ ReplaceLoop \/ ReplaceFile \/ ReplaceProgress
  \/ HookGlob \/ HookLog \/ HookRan
  \/ ImportTarget \/ ImportOpen \/ ImportSize \/ ImportMaria \/ ImportCmdLog
  \/ ImportRan
  \/ SyncEntry \/ SyncLog \/ SyncScriptLog \/ SyncRan
  \/ CmdStart \/ ProcExit \/ CmdWait \/ WgWait \/ CopierRead \/ CopierWrite
  \/ StripLog
  \/ \E p \in Pipes : ScanLine(p)
  \/ \E p \in Pipes : ScanEnd(p)

\* The engine with a consumer that keeps receiving (receiving stays TRUE in
\* Next), goroutines that are scheduled and subprocesses that exit.
SpecLive == Init /\ [][Next]_vars /\ WF_vars(EngineStep)

\* Every run terminates: Run returns and its deferred close runs.
C31_Terminates == <>(pc = "closed")

\* C31 as stated: no event is sent after run-done or after a fail event, and
\* the close of the channel is the last thing the run does: once it is
\* closed no goroutine of the run has a step left.
C31_CloseIsLast ==
  /\ (Sent("rundone") # {} \/ Sent("fail") # {}) => lastEv = trace[Len(trace)]
  /\ pc = "closed" => ~ENABLED Next

\* The run has sent its fail event and the stripper's log line follows it.
C31_LateLog ==
  /\ Sent("fail") # {}
  /\ lastEv = EvLog(4, "stripped")
  /\ pc = "closing"

\* The fraction p lies in the slice of pair i out of n: [i/n, (i+1)/n].
InSlice(p, i, n) == FracLeq(<<i, n>>, p) /\ FracLeq(p, <<i + 1, n>>)

\* C32 as stated: while the rsync of pair idx runs, the progress event it
\* sent last lies in the pair's slice [idx/total, (idx+1)/total], whatever
\* percentage the line carried.
C32_WithinSlice ==
  (sub = "sf_run" /\ proc # "none" /\ lastEv.type = "progress" /\ lastEv.step = 6)
    => InSlice(lastEv.prog, idx, nSync)

\* The claim holds for the percentages up to 100.
C32_WithinSliceUpTo100 ==
  (sub = "sf_run" /\ proc # "none" /\ lastEv.type = "progress" /\ lastEv.step = 6
     /\ lastEv.prog[1] - idx * 100 <= 100)
    => InSlice(lastEv.prog, idx, nSync)

\* C33: the progress meter of an import sends each whole-percent value at
\* most once: the values it has sent are all different, lie in 1..100 and
\* rise, so that at most 100 are sent however many reads there are; the
\* value sent last is lastPct.
C33_OncePerPercent ==
  /\ \A i, j \in DOMAIN pctSent : i < j => pctSent[i] < pctSent[j]
  /\ \A i \in DOMAIN pctSent : pctSent[i] \in 1..100
  /\ Len(pctSent) <= 100
  /\ pctSent # <<>> => pctSent[Len(pctSent)] = lastPct

\* An import of two lines: three reads (the last one finds the end of the
\* file at 100 percent again) and two progress events.
C33_Witness ==
  /\ sub = "im_run"
  /\ total = 2
  /\ rd = 2
  /\ copier = "done"
  /\ pctSent = <<50, 100>>

\* C36 as stated (its last part): the stripper's count line is sent before
\* phase-done of phase 4: once that event is sent the stripper is not still
\* before its log line with comment lines counted.
C36_CountBeforeDone ==
  (\E i \in DOMAIN trace : trace[i] = EvStepDone(4)) =>
     ~(strip \in {"write", "log"} /\ mlines > 0)

\* A step of the engine itself changes whether the artifact exists (a hook
\* script, which is handed its path, is not the engine).
EngineTouchesDump == dumpExists' # dumpExists /\ sub # "hk_run"

C37_CancelKeeps ==
  /\ pc = "closed"
  /\ trace[Len(trace)] = EvStepFail(3, "cancelled")
  /\ dumpExists

\* ------------------------------------------------------------------------
\* The sync screen of the TUI as the consumer of eventCh
\* (tui/models/syncing: New, waitForEvent, Update, applyEvent)
\* Log and progress events change the log panel and the progress values
\* only; the step statuses and the two flags follow the events of trace.
\* ------------------------------------------------------------------------
\* The Model that New returns; received counts the events taken.
TuiInit ==
  [steps |-> [s \in Steps |-> "pending"], done |-> FALSE, failed |-> FALSE, received |-> 0]

\* applyEvent
applyEvent(m, ev) ==
  CASE ev.type = "start" /\ ev.step \in Steps ->
         [m EXCEPT !.steps[ev.step] = "active"]
    [] ev.type = "done" /\ ev.step \in Steps ->
         [m EXCEPT !.steps[ev.step] = "done"]
    [] ev.type = "fail" ->
         [m EXCEPT !.steps = IF ev.step \in Steps THEN [@ EXCEPT ![ev.step] = "failed"] ELSE @,
                   !.failed = TRUE]
    [] ev.type = "rundone" -> [m EXCEPT !.done = TRUE]
    [] OTHER -> m

\* A screen that asks for the next event whatever the flags are.
WaitsAlways(m) == TRUE

\* Update: if !m.done && !m.failed, another waitForEvent is issued.
WaitsForEvent(m) == ~m.done /\ ~m.failed

\* What waitForEvent returns, one event after the other: the events sent, and
\* once the channel is closed and empty an EvDone of its own.
TuiStream == IF pc = "closed" THEN Append(trace, EvDone) ELSE trace

\* Update on an Event: applyEvent, and the event counts as taken; a screen
\* that issued no waitForEvent takes nothing.
Update(m, ev) ==
  IF WaitsForEvent(m) THEN [applyEvent(m, ev) EXCEPT !.received = @ + 1] ELSE m

\* The Model m after the events k.. of the stream were offered to it.
RECURSIVE TuiFrom(_, _)
TuiFrom(m, k) ==
  IF k > Len(TuiStream) THEN m ELSE TuiFrom(Update(m, TuiStream[k]), k + 1)

\* The Model once the screen has taken every event it can get.
Tui == TuiFrom(TuiInit, 1)

\* The first three conditions of C38 on a Model m.
TuiOk(m) ==
  /\ Cardinality({s \in Steps : m.steps[s] = "active"}) <= 1
  /\ \E k \in 0..7 : {s \in Steps : m.steps[s] = "done"} = 1..k
  /\ ~(m.done /\ m.failed)

\* The event that set done or failed is the last one m has taken.
TuiStopped(m) ==
  (m.done \/ m.failed) =>
     /\ TuiStream[m.received].type \in {"fail", "rundone"}
     /\ \A j \in 1..(m.received - 1) : TuiStream[j].type \notin {"fail", "rundone"}

\* C38: on the sync screen at most one step is active, the steps marked done
\* are the steps 1..k for some k, done and failed are never both set, and
\* the event that set one of them is the last one the screen has taken.
C38_TuiConsistent == TuiOk(Tui) /\ TuiStopped(Tui)

\* Step 4 has failed and Run has closed the channel: three steps done, the
\* fourth failed, the flag failed set alone, the closed channel not read.
C38_Witness ==
  /\ pc = "closed"
  /\ Tui.failed
  /\ ~Tui.done
  /\ Tui.steps = [s \in Steps |-> IF s < 4 THEN "done" ELSE IF s = 4 THEN "failed" ELSE "pending"]
  /\ Tui.received = Len(trace)

\* While a step runs it is the one active step.
C38_OneActive ==
  /\ pc = "fn"
  /\ stepNum = 6
  /\ {s \in Steps : Tui.steps[s] = "active"} = {6}
  /\ {s \in Steps : Tui.steps[s] = "done"} = 1..5

\* ------------------------------------------------------------------------
\* The engine with a consumer that may stop receiving
\* ------------------------------------------------------------------------
\* The receiving end of eventCh: each receive is one waitForEvent command, and
\* no event is taken from the channel unless another one is issued.
ConsumerStop ==
  /\ receiving
  /\ pc # "closed"
  /\ receiving' = FALSE
  /\ UNCHANGED <<op, ctxVars, locals, pc, stepNum, sub, err, trace, lastEv, maxProg, buffered,
                 dumpExists, called, subpVars, impVars, offEng>>

NextBlock ==
  \/ Next
  \/ ConsumerStop

SpecBlock == Init /\ [][NextBlock]_vars

\* C11 as stated: once ctx is cancelled no producer stays blocked on a send,
\* whatever the consumer does: while Run has not returned and closed the
\* channel, some goroutine of the run can still take a step.
C11_ProducersGiveUp ==
  (cancelled /\ pc # "closed") => ENABLED Next

\* ------------------------------------------------------------------------
\* The rewriter: resilientReplaceLiteral (tui/app.go 256-315)
\* A string is the sequence of its runes; "é" stands for any two-byte rune.
\* ------------------------------------------------------------------------
Alphabet == {"a", "é"}

\* len([]byte(s))
RuneBytes(c) == IF c = "é" THEN 2 ELSE 1

RECURSIVE Bytes(_)
Bytes(s) == IF s = <<>> THEN 0 ELSE RuneBytes(Head(s)) + Bytes(Tail(s))

\* t occurs in s at position i
HasAt(s, i, t) ==
  /\ i >= 1
  /\ i + Len(t) - 1 <= Len(s)
  /\ SubSeq(s, i, i + Len(t) - 1) = t

\* strings.Count(s, t) from position i on, t non-empty: non-overlapping
\* occurrences, leftmost first.
RECURSIVE CountFrom(_, _, _)
CountFrom(s, i, t) ==
  IF i + Len(t) - 1 > Len(s) THEN 0
  ELSE IF HasAt(s, i, t) THEN 1 + CountFrom(s, i + Len(t), t)
  ELSE CountFrom(s, i + 1, t)

\* An occurrence count that stops at the first hit.
CountFirst(s, t) == IF CountFrom(s, 1, t) > 0 THEN 1 ELSE 0

\* strings.Count(s, t): with t empty, the number of runes of s plus one.
Count(s, t) == IF t = <<>> THEN Len(s) + 1 ELSE CountFrom(s, 1, t)

\* strings.ReplaceAll(s, t, r) from position i on, t non-empty
RECURSIVE ReplaceFrom(_, _, _, _)
ReplaceFrom(s, i, t, r) ==
  IF i > Len(s) THEN <<>>
  ELSE IF HasAt(s, i, t) THEN r \o ReplaceFrom(s, i + Len(t), t, r)
  ELSE <<s[i]>> \o ReplaceFrom(s, i + 1, t, r)

\* r before every rune of s and after the last one
RECURSIVE Interleave(_, _)
Interleave(s, r) ==
  IF s = <<>> THEN r ELSE r \o <<Head(s)>> \o Interleave(Tail(s), r)

\* strings.ReplaceAll(s, t, r): an empty t matches at the beginning of s and
\* after each rune.
ReplaceAll(s, t, r) == IF t = <<>> THEN Interleave(s, r) ELSE ReplaceFrom(s, 1, t, r)

\* The quote of phpSerialPattern (") and of phpSerialPatternEsc (\").
Quote(esc) == IF esc THEN <<"\\", "\"">> ELSE <<"\"">>

\* Last position of the run of digits that starts at i (i - 1 if none): \d+
RECURSIVE DigitsEnd(_, _)
DigitsEnd(s, i) ==
  IF i <= Len(s) /\ IsDigit(s[i]) THEN DigitsEnd(s, i + 1) ELSE i - 1

\* ((?:[^"\\]|\\.)*?) followed by the closing quote and ";": the position of
\* the closing quote for content starting at j, 0 if there is no match. The
\* content is a run of units, a unit being one rune other than " and \ or a
\* backslash with the rune after it; the lazy star stops at the first unit
\* boundary where the closing quote and ";" follow.
RECURSIVE ContentEnd(_, _, _)
ContentEnd(s, j, esc) ==
  IF HasAt(s, j, Quote(esc) \o <<";">>) THEN j
  ELSE IF j > Len(s) THEN 0
  ELSE IF s[j] = "\"" THEN 0
  ELSE IF s[j] = "\\" THEN IF j + 1 <= Len(s) THEN ContentEnd(s, j + 2, esc) ELSE 0
  ELSE ContentEnd(s, j + 1, esc)

\* The match of the pattern that starts at i, if any: its digits, its content
\* and its last position.
NoMatch == [ok |-> FALSE, num |-> <<>>, inner |-> <<>>, last |-> 0]

MatchAt(s, i, esc) ==
  LET d == DigitsEnd(s, i + 2)
      c == d + 2 + Len(Quote(esc))
      e == ContentEnd(s, c, esc)
  IN  IF /\ HasAt(s, i, <<"s", ":">>)
         /\ d >= i + 2
         /\ HasAt(s, d + 1, <<":">> \o Quote(esc))
         /\ e # 0
        THEN [ok |-> TRUE, num |-> SubSeq(s, i + 2, d), inner |-> SubSeq(s, c, e - 1),
              last |-> e + Len(Quote(esc))]
        ELSE NoMatch

\* The digits of math.MaxInt64, 9223372036854775807, and all but its last three.
MaxInt64Digits ==
  <<"9", "2", "2", "3", "3", "7", "2", "0", "3", "6", "8", "5", "4", "7", "7", "5",
    "8", "0", "7">>
Int64Head == SubSeq(MaxInt64Digits, 1, 16)

RECURSIVE StripZeros(_)
StripZeros(ds) ==
  IF Len(ds) > 1 /\ Head(ds) = "0" THEN StripZeros(Tail(ds)) ELSE ds

\* strconv.Atoi fails with a range error and returns math.MaxInt64: the
\* digits denote a number above it.
OutOfRange(ds) ==
  \/ Len(StripZeros(ds)) > Len(MaxInt64Digits)
  \/ /\ Len(StripZeros(ds)) = Len(MaxInt64Digits)
     /\ LexLess(MaxInt64Digits, StripZeros(ds))

\* %d of math.MaxInt64 + k in 64-bit two's complement, for -700 < k < 700:
\* above MaxInt64 the sum wraps to MinInt64 + k - 1 = -(2^63 - (k - 1)).
WrappedSum(k) ==
  IF k <= 0 THEN Int64Head \o Itoa(807 + k)
  ELSE <<"-">> \o Int64Head \o Itoa(808 - (k - 1))

\* A count that fails where strconv.Atoi reports an error.
NewCountChecked(num, k) ==
  IF OutOfRange(num) THEN <<"panic">> ELSE Itoa(Atoi(num) + k)

\* origN, _ := strconv.Atoi(sub[1]); newN := origN + count*delta, as %d
\* prints it: the error of Atoi is dropped and the sum wraps.
NewCount(num, k) ==
  IF OutOfRange(num) THEN WrappedSum(k) ELSE Itoa(Atoi(num) + k)

\* `s:%d:"%s";` and its escaped twin around the digits ds and the content c
WrapDigits(esc, ds, c) ==
  <<"s", ":">> \o ds \o <<":">> \o Quote(esc) \o c \o Quote(esc) \o <<";">>

\* fmt.Sprintf(`s:%d:"%s";`, n, s) and its escaped twin
Wrap(esc, n, c) == WrapDigits(esc, Itoa(n), c)

\* fixSerial: what one match is replaced by.
fixSerial(s, i, m, esc, search, replace) ==
  IF Count(m.inner, search) = 0
    THEN SubSeq(s, i, m.last)
    ELSE WrapDigits(esc,
                    NewCount(m.num, Count(m.inner, search) * (Bytes(replace) - Bytes(search))),
                    ReplaceAll(m.inner, search, replace))

\* re.ReplaceAllStringFunc(line, fixSerial(...)) from position i on: leftmost
\* matches, none overlapping.
RECURSIVE SerialFrom(_, _, _, _, _)
SerialFrom(s, i, esc, search, replace) ==
  IF i > Len(s) THEN <<>>
  ELSE LET m == MatchAt(s, i, esc)
       IN  IF m.ok
             THEN fixSerial(s, i, m, esc, search, replace)
                    \o SerialFrom(s, m.last + 1, esc, search, replace)
             ELSE <<s[i]>> \o SerialFrom(s, i + 1, esc, search, replace)

\* First pass: the unescaped pattern, then the escaped one on its result.
SerialPass(search, replace, line) ==
  SerialFrom(SerialFrom(line, 1, FALSE, search, replace), 1, TRUE, search, replace)

\* A rewriter that runs the plain pass whatever the option says.
ResilientReplaceLineBoth(search, replace, line, only) ==
  ReplaceAll(SerialPass(search, replace, line), search, replace)

\* resilientReplaceLiteral
ResilientReplaceLine(search, replace, line, only) ==
  IF only
    THEN SerialPass(search, replace, line)
    ELSE ReplaceAll(SerialPass(search, replace, line), search, replace)

\* ------------------------------------------------------------------------
\* The rewriter specification: one call of ResilientReplaceLine on a line
\* that holds one well-formed serialized value between two plain texts.
\* ------------------------------------------------------------------------
Strs(n) == UNION {[1..k -> Alphabet] : k \in 0..n}
Plains  == {<<>>, <<"a">>}

\* How the value is written: its count as %d prints it ("exact"), the count
\* with a leading zero ("zero"), or the escaped value as the content of an
\* unescaped one ("nested").
Forms(e) == IF e THEN {"exact", "zero", "nested"} ELSE {"exact", "zero"}

Value(f, e, c) ==
  IF f = "exact" THEN Wrap(e, Bytes(c), c)
  ELSE IF f = "zero"
    THEN <<"s", ":", "0">> \o Itoa(Bytes(c)) \o <<":">> \o Quote(e) \o c \o Quote(e) \o <<";">>
  ELSE Wrap(FALSE, Bytes(Wrap(TRUE, Bytes(c), c)), Wrap(TRUE, Bytes(c), c))

RwInputs(e) ==
  {[search |-> s, replace |-> r, only |-> o, pre |-> p, esc |-> e, content |-> c,
    post |-> q, form |-> f, line |-> p \o Value(f, e, c) \o q] :
     s \in Strs(MaxSearch) \ {<<>>}, r \in Strs(MaxReplace), o \in BOOLEAN,
     p \in Plains, c \in Strs(MaxContent), q \in Plains, f \in Forms(e)}

InitRewrite ==
  /\ EngineOff
  /\ CredOff
  /\ FileOff
  /\ \E e \in BOOLEAN : rwIn \in RwInputs(e)
  /\ rwOut = NoOut

RewriteLine ==
  /\ ~rwOut.done
  /\ rwIn # NoRw
  /\ rwOut' = [done |-> TRUE,
               unesc |-> SerialFrom(rwIn.line, 1, FALSE, rwIn.search, rwIn.replace),
               serial |-> SerialPass(rwIn.search, rwIn.replace, rwIn.line),
               line |-> ResilientReplaceLine(rwIn.search, rwIn.replace, rwIn.line,
                                             rwIn.only)]
  /\ UNCHANGED <<engVars, credVars, fileVars, rwIn>>

NextRewrite == RewriteLine

SpecRewrite == InitRewrite /\ [][NextRewrite]_vars

\* Every serialized substring of s, in either form, has N = bytes(C).
RECURSIVE ConsistentFrom(_, _, _)
ConsistentFrom(s, i, esc) ==
  IF i > Len(s) THEN TRUE
  ELSE LET m == MatchAt(s, i, esc)
       IN  IF m.ok
             THEN Atoi(m.num) = Bytes(m.inner) /\ ConsistentFrom(s, m.last + 1, esc)
             ELSE ConsistentFrom(s, i + 1, esc)

Consistent(s) == ConsistentFrom(s, 1, FALSE) /\ ConsistentFrom(s, 1, TRUE)

\* C5: in literal mode with the serialized-only flag unset, a line whose
\* serialized values all have N = bytes(C) is rewritten into a line whose
\* serialized values all have N = bytes(C).
C5_ByteCountKept ==
  (rwOut.done /\ ~rwIn.only /\ Consistent(rwIn.line)) => Consistent(rwOut.line)

\* Number of hits of t in s as a property of s: the most positions of t in s
\* that can be picked without two of them overlapping.
Hits(s, t) ==
  LET occ == {i \in 1..Len(s) : HasAt(s, i, t)}
      apart(P) == \A i \in P, j \in P : i # j => (i - j >= Len(t) \/ j - i >= Len(t))
      sizes == {Cardinality(P) : P \in {Q \in SUBSET occ : apart(Q)}}
  IN  CHOOSE k \in sizes : \A l \in sizes : l <= k

\* C6: after the serialized pass a single value s:N:"C"; whose content holds k >= 1
\* hits of the search string reads s:N + k*(bytes(replace) - bytes(search)):
\* with every hit in C replaced, bytes being bytes and not runes; the text
\* around it is as it was.
C6_CountAllHits ==
  (rwOut.done /\ rwIn.form # "nested" /\ Hits(rwIn.content, rwIn.search) >= 1) =>
     LET k     == Hits(rwIn.content, rwIn.search)
         delta == Bytes(rwIn.replace) - Bytes(rwIn.search)
         m     == MatchAt(rwOut.serial, Len(rwIn.pre) + 1, rwIn.esc)
     IN  /\ m.ok
         /\ Atoi(m.num) = Bytes(rwIn.content) + k * delta
         /\ m.num = Itoa(Bytes(rwIn.content) + k * delta)
         /\ m.inner = ReplaceAll(rwIn.content, rwIn.search, rwIn.replace)
         /\ SubSeq(rwOut.serial, 1, Len(rwIn.pre)) = rwIn.pre
         /\ SubSeq(rwOut.serial, m.last + 1, Len(rwOut.serial)) = rwIn.post

C6_Witness ==
  /\ rwOut.done
  /\ rwIn.search = <<"é">>
  /\ rwIn.replace = <<"a">>
  /\ rwIn.content = <<"é", "a", "é">>
  /\ rwIn.esc
  /\ rwOut.serial = rwIn.pre \o <<"s", ":", "3", ":", "\\", "\"", "a", "a", "a", "\\", "\"", ";">>
                      \o rwIn.post

\* C15 as stated: with search = replace the line comes back as it went in,
\* however the count of a serialized value is written.
C15_IdentityNoOp ==
  (rwOut.done /\ rwIn.search = rwIn.replace) => rwOut.line = rwIn.line

\* The form in which the top-level value of the input line is written.
TopEsc == rwIn.form # "nested" /\ rwIn.esc

\* C16: with the serialized-only option the text before and after the
\* serialized value comes back unchanged, also where it holds the search
\* string; what lies between them is again a serialized value of the same form.
C16_OnlySerialized ==
  (rwOut.done /\ rwIn.only) =>
     LET m == MatchAt(rwOut.line, Len(rwIn.pre) + 1, TopEsc)
     IN  /\ m.ok
         /\ SubSeq(rwOut.line, 1, Len(rwIn.pre)) = rwIn.pre
         /\ SubSeq(rwOut.line, m.last + 1, Len(rwOut.line)) = rwIn.post

C16_Witness ==
  /\ rwOut.done
  /\ rwIn.only
  /\ rwIn.search = <<"a">>
  /\ rwIn.replace = <<"é">>
  /\ rwIn.pre = <<"a">>
  /\ rwIn.post = <<"a">>
  /\ rwIn.content = <<"a", "a">>
  /\ rwIn.form = "exact"
  /\ ~rwIn.esc
  /\ rwOut.line = <<"a", "s", ":", "4", ":", "\"", "é", "é", "\"", ";", "a">>

\* A value matched in one form comes back in that form with the count
\* recomputed from its own.
C17_FormKept ==
  (rwOut.done /\ rwIn.form # "nested" /\ Hits(rwIn.content, rwIn.search) >= 1) =>
     LET m == MatchAt(rwOut.serial, Len(rwIn.pre) + 1, rwIn.esc)
     IN  /\ m.ok
         /\ ~MatchAt(rwOut.serial, Len(rwIn.pre) + 1, ~rwIn.esc).ok
         /\ m.num = Itoa(Bytes(rwIn.content) + Hits(rwIn.content, rwIn.search)
                                                * (Bytes(rwIn.replace) - Bytes(rwIn.search)))

\* What the unescaped pass rewrote is left alone by the escaped pass.
C17_PassesApart ==
  (rwOut.done /\ rwOut.unesc # rwIn.line) => rwOut.serial = rwOut.unesc

\* C17 as stated: the form of a match is kept, each match gets its own
\* recomputed count, and the escaped pass never rewrites what the unescaped
\* pass has rewritten.
C17_FormsAndPasses == C17_FormKept /\ C17_PassesApart

\* ------------------------------------------------------------------------
\* The rewriter on arbitrary lines: one call of ResilientReplaceLine in
\* literal mode on a line that holds a well-formed or a damaged serialized
\* value, with any search string, the empty one included
\* (replace_test.go 162-174)
\* ------------------------------------------------------------------------
MaxFuzz == 2   \* runes in the search string and in the content of the value

\* How the value is damaged: not at all, a count beyond int64, no count, no
\* closing quote, no semicolon, a backslash before the closing quote.
FuzzForms == {"exact", "overflow", "nocount", "noclose", "nosemi", "backslash"}

TwentyNines == [i \in 1..20 |-> "9"]

FuzzValue(f, e, c) ==
  CASE f = "exact"     -> Wrap(e, Bytes(c), c)
    [] f = "overflow"  -> WrapDigits(e, TwentyNines, c)
    [] f = "nocount"   -> WrapDigits(e, <<>>, c)
    [] f = "noclose"   -> <<"s", ":">> \o Itoa(Bytes(c)) \o <<":">> \o Quote(e) \o c
    [] f = "nosemi"    -> <<"s", ":">> \o Itoa(Bytes(c)) \o <<":">> \o Quote(e) \o c \o Quote(e)
    [] f = "backslash" -> Wrap(e, Bytes(c) + 1, c \o <<"\\">>)

\* Search and replace strings: runes, and characters of the value's syntax.
FuzzSearches(n) == Strs(n) \cup {<<"\"">>, <<";">>}
FuzzReplaces    == {<<>>, <<"a">>, <<"é">>, <<"\"">>}

FuzzInputs(e, n) ==
  {[search |-> s, replace |-> r, only |-> o, pre |-> p, esc |-> e, content |-> c,
    post |-> q, form |-> f, line |-> p \o FuzzValue(f, e, c) \o q] :
     s \in FuzzSearches(n), r \in FuzzReplaces, o \in BOOLEAN,
     p \in Plains, c \in Strs(n), q \in Plains, f \in FuzzForms}

InitFuzz ==
  /\ EngineOff
  /\ CredOff
  /\ FileOff
  /\ \E e \in BOOLEAN : rwIn \in FuzzInputs(e, MaxFuzz)
  /\ rwOut = NoOut

SpecFuzz == InitFuzz /\ [][NextRewrite]_vars

\* The characters a line is made of here.
LineChars ==
  Alphabet \cup {DigitChars[d] : d \in 1..10} \cup {"s", ":", ";", "\"", "\\", "-"}

\* C28: in literal mode ResilientReplaceLine returns a string for every
\* search string, replace string and line: before the call the function has
\* a line as its value for the input, and the call returns a line, also with
\* the empty search string, a count beyond int64, no count, or unbalanced
\* quotes.
C28_Total ==
  /\ (rwIn # NoRw /\ ~rwOut.done) =>
        ResilientReplaceLine(rwIn.search, rwIn.replace, rwIn.line, rwIn.only)
          \in Seq(LineChars)
  /\ rwOut.done => rwOut.line \in Seq(LineChars)

\* The empty search string in a value whose count is beyond int64: the count
\* wraps around and the replacement is put before and after the rune.
C28_Witness ==
  /\ rwOut.done
  /\ rwIn.form = "overflow"
  /\ rwIn.search = <<>>
  /\ rwIn.replace = <<"a">>
  /\ rwIn.content = <<"é">>
  /\ rwIn.only
  /\ ~rwIn.esc
  /\ rwOut.line = rwIn.pre \o <<"s", ":", "-">> \o Int64Head \o <<"8", "0", "7">>
                     \o <<":", "\"", "a", "é", "a", "\"", ";">> \o rwIn.post

\* ------------------------------------------------------------------------
\* The command lines FetchDump and ImportDump log (database.go 536-705)
\* A string is the sequence of its characters.
\* ------------------------------------------------------------------------
\* strings.Join(args, sep)
RECURSIVE Join(_, _)
Join(args, sep) ==
  IF args = <<>> THEN <<>>
  ELSE IF Len(args) = 1 THEN args[1]
  ELSE args[1] \o sep \o Join(Tail(args), sep)

Space == <<" ">>

\* strings.Contains(s, t)
Contains(s, t) == \E i \in 1..(Len(s) + 1) : HasAt(s, i, t)

\* The fields of the profile that do not vary here: host "h", database "d",
\* destination user "u", ssh port 22, dump file "f", no DBPort, no SQL
\* options, no ignored tables, default binaries.
CfgHost   == <<"h">>
CfgDB     == <<"d">>
CfgUser   == <<"u">>
CfgPort   == <<"2", "2">>
CfgFile   == <<"f">>
MysqlBin  == <<"m", "y", "s", "q", "l">>
DumpBin   == MysqlBin \o <<"d", "u", "m", "p">>
DumpPath  == DumpFilePath(TmpDir, <<"c">>)
Prompt    == <<" ", " ", "$", " ">>

\* An optional "-u user" / "-p<password>" pair of arguments.
OptUser(u) == IF u # <<>> THEN <<<<"-", "u">>, u>> ELSE <<>>
OptPass(w) == IF w # <<>> THEN <<<<"-", "p">> \o w>> ELSE <<>>

buildDumpArgs(cfg) ==
  <<<<"-", "h">>, CfgHost>> \o OptUser(cfg.srcUser) \o OptPass(cfg.srcPw) \o <<CfgDB>>

buildMySQLArgs(cfg) ==
  <<<<"-", "h">>, CfgHost>> \o OptUser(CfgUser) \o OptPass(cfg.dstPw) \o <<CfgDB>>

Redacted == <<"-", "p", "[", "R", "E", "D", "A", "C", "T", "E", "D", "]">>

\* redactArgs: every -p<password> argument becomes -p[REDACTED].
redactArgs(args) ==
  Join([i \in 1..Len(args) |->
          IF HasAt(args[i], 1, <<"-", "p">>) /\ Len(args[i]) > 2
            THEN Redacted ELSE args[i]], Space)

\* user@server of the source
SrcLogin(cfg) == cfg.srcUser \o <<"@">> \o CfgHost

\* The last line FetchDump logs before it fetches: the command line of scp,
\* ssh or mysqldump, or the source line of a local file.
FetchLogLine(cfg) ==
  CASE cfg.srcType = "remote_base" ->
         Prompt \o <<"s", "s", "h", " ">>
           \o Join(<<<<"-", "p">>, CfgPort, SrcLogin(cfg),
                     Join(<<DumpBin>> \o buildDumpArgs(cfg), Space)>>, Space)
    [] cfg.srcType = "local_base" ->
         Prompt \o DumpBin \o Space \o Join(buildDumpArgs(cfg), Space)
    [] cfg.srcType = "remote_file" ->
         Prompt \o <<"s", "c", "p", " ", "-", "P", " ">> \o CfgPort \o Space
           \o SrcLogin(cfg) \o <<":">> \o CfgFile \o Space \o DumpPath
    [] OTHER ->
         <<" ", " ", "s", "o", "u", "r", "c", "e", ":", " ">> \o CfgFile

\* The command line ImportDump logs.
ImportLogLine(cfg) == Prompt \o MysqlBin \o Space \o redactArgs(buildMySQLArgs(cfg))

Passwords == {<<>>, <<"x">>, <<"x", "k">>}

CredCfgs ==
  {[srcType |-> t, srcUser |-> u, srcPw |-> w, dstPw |-> v] :
     t \in SrcTypes \ {"bogus"}, u \in {<<>>, CfgUser}, w \in Passwords,
     v \in Passwords}

InitCred ==
  /\ EngineOff
  /\ RwOff
  /\ FileOff
  /\ credCfg \in CredCfgs
  /\ credPc = "fetch"
  /\ credLog = <<>>
  /\ credStep = 0

\* Step 1 logs its command line.
CredFetchLog ==
  /\ credPc = "fetch"
  /\ credLog' = FetchLogLine(credCfg)
  /\ credStep' = 1
  /\ credPc' = "import"
  /\ UNCHANGED <<engVars, rwVars, fileVars, credCfg>>

\* Step 4 logs its command line.
CredImportLog ==
  /\ credPc = "import"
  /\ credLog' = ImportLogLine(credCfg)
  /\ credStep' = 4
  /\ credPc' = "end"
  /\ UNCHANGED <<engVars, rwVars, fileVars, credCfg>>

NextCred ==
  \/ CredFetchLog
  \/ CredImportLog

SpecCred == InitCred /\ [][NextCred]_vars

\* C4: no log message contains the source or the destination DB password,
\* when that password is not empty; the command lines of steps 1 and 4 are
\* such messages.
C4_NoPasswordInLog ==
  \A w \in {credCfg.srcPw, credCfg.dstPw} : w # <<>> => ~Contains(credLog, w)

\* ------------------------------------------------------------------------
\* The rewriter on streams and files: ResilientReplaceStream and
\* ResilientReplaceFile (tui/app.go 317-400)
\* ------------------------------------------------------------------------
\* Search strings of a call; in regex mode the second one has a character
\* class that is never closed.
Patterns == {<<"a">>, <<"[", "a">>, <<"[", "a", "]">>}

\* regexp.MustCompile(search) returns: the expression has no unclosed class.
Compiles(s) ==
  ~\E i \in DOMAIN s : s[i] = "[" /\ \A j \in DOMAIN s : j > i => s[j] # "]"

FileInputs ==
  {[NoFile EXCEPT !.regex = r, !.search = p, !.n = k, !.left = k, !.pc = "open"] :
     r \in BOOLEAN, p \in Patterns, k \in 0..MaxFileLines}

InitFile ==
  /\ EngineOff
  /\ CredOff
  /\ RwOff
  /\ file \in FileInputs
  /\ hl = NoHeadless
  /\ pth = NoPath
  /\ StagesOff

fileFrame == <<engVars, credVars, rwVars, hl, pth, chk, rp, stp>>

\* A call that returns e, or leaves by a panic.
FileReturn(e) == [file EXCEPT !.pc = "end", !.res = e]

\* os.Open(filePath)
FileOpen ==
  /\ file.pc = "open"
  /\ \/ file' = [file EXCEPT !.pc = "create"]
     \/ file' = FileReturn("err")
  /\ UNCHANGED fileFrame

\* os.CreateTemp in the directory of filePath
FileCreateTemp ==
  /\ file.pc = "create"
  /\ \/ file' = [file EXCEPT !.pc = "scan", !.tmp = TRUE]
     \/ file' = FileReturn("err")
  /\ UNCHANGED fileFrame

\* One round of the loop of ResilientReplaceStream: sc.Scan() returns a line,
\* ResilientReplaceLine rewrites it (in regex mode it compiles search first),
\* and the result is written to bw.
StreamLine ==
  /\ file.pc = "scan"
  /\ file.left > 0
  /\ IF file.regex /\ ~Compiles(file.search)
       THEN file' = [FileReturn("panic") EXCEPT !.stream = "panic"]
       ELSE \/ file' = [file EXCEPT !.left = @ - 1, !.out = @ + 1]
            \/ file' = [file EXCEPT !.pc = "failed", !.stream = "err"]
  /\ UNCHANGED fileFrame

\* sc.Scan() returns false on a read error: sc.Err() is returned.
StreamReadErr ==
  /\ file.pc = "scan"
  /\ file' = [file EXCEPT !.pc = "failed", !.stream = "err"]
  /\ UNCHANGED fileFrame

\* sc.Scan() returns false at the end of the input: return bw.Flush().
StreamEnd ==
  /\ file.pc = "scan"
  /\ file.left = 0
  /\ \/ file' = [file EXCEPT !.pc = "written", !.stream = "nil"]
     \/ file' = [file EXCEPT !.pc = "failed", !.stream = "err"]
  /\ UNCHANGED fileFrame

\* The stream returned an error: tmp.Close(), os.Remove(tmpPath), return.
FileStreamErr ==
  /\ file.pc = "failed"
  /\ file' = [FileReturn("err") EXCEPT !.tmp = FALSE]
  /\ UNCHANGED fileFrame

\* tmp.Close(), then the permission bits of the original are copied.
FileChmod ==
  /\ file.pc = "written"
  /\ file' = [file EXCEPT !.pc = "rename"]
  /\ UNCHANGED fileFrame

\* return os.Rename(tmpPath, filePath)
FileRename ==
  /\ file.pc = "rename"
  /\ \/ file' = [FileReturn("nil") EXCEPT !.tmp = FALSE, !.orig = "new"]
     \/ file' = FileReturn("err")
  /\ UNCHANGED fileFrame

NextFile ==
  \/ FileOpen
  \/ FileCreateTemp
  \/ StreamLine
  \/ StreamReadErr
  \/ StreamEnd
  \/ FileStreamErr
  \/ FileChmod
  \/ FileRename

SpecFile == InitFile /\ [][NextFile]_vars

\* C13 as stated: in regex mode, with a search string that is no valid regular
\* expression, ResilientReplaceStream ends by returning an error, whatever
\* its input is.
C13_InvalidRegexIsError ==
  (file.regex /\ ~Compiles(file.search) /\ file.pc \in {"failed", "written", "end"}
     /\ file.stream # "none")
    => file.stream = "err"

\* C14 as stated: when ResilientReplaceFile returns an error the temp file is
\* gone and the original is as it was; when it returns nil the original path
\* holds the complete rewritten content.
C14_AtomicRewrite ==
  /\ file.res = "err" => ~file.tmp /\ file.orig = "old"
  /\ file.res = "nil" => file.orig = "new" /\ file.out = file.n

\* ------------------------------------------------------------------------
\* The headless run: main -> runHeadless -> RunHeadless -> go Run
\* (part_000 20-22, 132-151; engine.go 18-33, 97-129, 161-189)
\* ------------------------------------------------------------------------
\* make(chan Event, 64)
HeadlessCap == 64

\* Events of the connection info Run sends before its loop.
PreambleCount(o, n) ==
  1 + (IF skipSQL(o) THEN 0 ELSE 3) + (IF skipFiles(o) THEN 0 ELSE n + 1) + 1

InitHeadless ==
  /\ EngineOff
  /\ CredOff
  /\ RwOff
  /\ file = NoFile
  /\ pth = NoPath
  /\ StagesOff
  /\ hl \in {[NoHeadless EXCEPT !.op = o, !.nSync = n, !.pc = "init"] :
               o \in Ops, n \in 0..MaxSync}

hlFrame == <<engVars, credVars, rwVars, file, pth, chk, rp, stp>>

\* eventCh <- e in Run
HSend(e) ==
  /\ Len(hl.ch) < HeadlessCap
  /\ ~hl.closed

\* os.MkdirAll(tmpDir): on failure a fail event of step 1 and return.
HMkdirAll ==
  /\ hl.pc = "init"
  /\ \/ hl' = [hl EXCEPT !.pc = "info", !.toSend = PreambleCount(hl.op, hl.nSync)]
     \/ /\ HSend(EvStepFail(1, "cannot create tmp dir"))
        /\ hl' = [hl EXCEPT !.pc = "return",
                            !.ch = Append(@, EvStepFail(1, "cannot create tmp dir"))]
  /\ UNCHANGED hlFrame

\* One log event of the connection info; after the last one Run enters its loop.
HPreamble ==
  /\ hl.pc = "info"
  /\ HSend(EvLog(0, "info"))
  /\ hl' = [hl EXCEPT !.ch = Append(@, EvLog(0, "info")),
                      !.toSend = @ - 1,
                      !.pc = IF hl.toSend = 1 THEN "loop" ELSE "info"]
  /\ UNCHANGED hlFrame

\* select { case <-ctx.Done(): ... }: runHeadless passes nil for ctx, and the
\* call of Done on the nil interface panics.
HBoundary ==
  /\ hl.pc = "loop"
  /\ hl' = [hl EXCEPT !.pc = "panicking"]
  /\ UNCHANGED hlFrame

\* defer close(eventCh), on return and while the panic unwinds.
HClose ==
  /\ hl.pc \in {"return", "panicking"}
  /\ hl' = [hl EXCEPT !.closed = TRUE,
                      !.pc = IF hl.pc = "return" THEN "closed" ELSE "crash"]
  /\ UNCHANGED hlFrame

\* The panic was not recovered: the runtime ends the process with status 2.
HCrash ==
  /\ hl.pc = "crash"
  /\ hl.exit = "none"
  /\ hl' = [hl EXCEPT !.pc = "dead", !.exit = "2"]
  /\ UNCHANGED hlFrame

\* for ev := range eventCh: one event is received and printed.
HRecv ==
  /\ hl.res = "none"
  /\ hl.exit = "none"
  /\ hl.ch # <<>>
  /\ hl' = [hl EXCEPT !.ch = Tail(@),
                      !.lastErr = IF Head(hl.ch).type = "fail" THEN Head(hl.ch).msg ELSE @,
                      !.sawDone = @ \/ Head(hl.ch).type = "rundone"]
  /\ UNCHANGED hlFrame

\* The range loop ends on the closed, drained channel: RunHeadless returns.
HReturn ==
  /\ hl.res = "none"
  /\ hl.exit = "none"
  /\ hl.ch = <<>>
  /\ hl.closed
  /\ hl' = [hl EXCEPT !.res = IF hl.lastErr # "" THEN "err" ELSE "nil"]
  /\ UNCHANGED hlFrame

\* main: os.Exit(1) when Execute returned an error, else the normal exit.
HExit ==
  /\ hl.res # "none"
  /\ hl.exit = "none"
  /\ hl' = [hl EXCEPT !.exit = IF hl.res = "nil" THEN "0" ELSE "1"]
  /\ UNCHANGED hlFrame

NextHeadless ==
  \/ HMkdirAll
  \/ HPreamble
  \/ HBoundary
  \/ HClose
  \/ HCrash
  \/ HRecv
  \/ HReturn
  \/ HExit

SpecHeadless == InitHeadless /\ [][NextHeadless]_vars

\* C18 as stated: a headless run exits with status zero exactly when run-done
\* was reached without a phase-fail, and with a non-zero status exactly when a
\* phase failed; RunHeadless returns only after the channel was closed.
C18_HeadlessExit ==
  /\ hl.exit # "none" =>
       /\ hl.exit = "0" <=> (hl.sawDone /\ hl.lastErr = "")
       /\ hl.exit # "0" <=> hl.lastErr # ""
  /\ hl.res # "none" => hl.closed

\* ------------------------------------------------------------------------
\* The paths of a run: the artifact path and the reader ImportDump picks for
\* it (engine.go 28-30, database.go 426-429, 482-490, 746-749), and the
\* paths of a sync pair as the file-sync tool gets them (files.go 76-85,
\* 140-153, 156-163)
\* ------------------------------------------------------------------------
MaxPath == 2   \* characters in the source or destination path of a sync pair

\* A file source names an SQL file or a gzip-compressed one.
SrcFiles == {<<"f">> \o SqlSuffix, <<"f">> \o SqlSuffix \o GzSuffix}

PathChars    == {"a", "/"}
PathStrs(n)  == UNION {[1..k -> PathChars] : k \in 0..n}

\* ensureTrailingSlash: "/" is appended unless the path is empty or has one.
ensureTrailingSlash(path) ==
  IF path # <<>> /\ ~HasSuffix(path, <<"/">>) THEN path \o <<"/">> ELSE path

\* remoteSrc of buildRsyncArgs and the url of buildLFTPScript, which ends in
\* the source path (no LFTP password, default port and protocol).
RemoteSrc(t, srcPath) ==
  IF t = "lftp"
    THEN <<"f", "t", "p", ":", "/", "/">> \o CfgUser \o <<"@">> \o CfgHost
           \o <<":", "2", "1">> \o srcPath
    ELSE CfgUser \o <<"@">> \o CfgHost \o <<":">> \o srcPath

PathInputs(n) ==
  {[NoPath EXCEPT !.srcType = t, !.file = f, !.conf = c, !.src = a, !.dst = b,
                  !.transport = x, !.pc = "fetch"] :
     t \in {"local_file", "remote_file"}, f \in SrcFiles, c \in ConfNames,
     a \in PathStrs(n), b \in PathStrs(n), x \in Transports}

InitPath ==
  /\ EngineOff
  /\ CredOff
  /\ RwOff
  /\ file = NoFile
  /\ hl = NoHeadless
  /\ pth \in PathInputs(MaxPath)
  /\ StagesOff

pathFrame == <<engVars, credVars, rwVars, file, hl, chk, rp, stp>>

\* Run derives dumpPath from the profile name; copyFile and scp bring the
\* bytes of the source file to it as they are.
PathFetch ==
  /\ pth.pc = "fetch"
  /\ pth' = [pth EXCEPT !.dumpPath = DumpFilePath(TmpDir, pth.conf),
                        !.gz = HasSuffix(pth.file, GzSuffix),
                        !.pc = "import"]
  /\ UNCHANGED pathFrame

\* ImportDump: the reader is the file, wrapped in gzip.NewReader if dumpPath
\* ends in ".gz".
PathImport ==
  /\ pth.pc = "import"
  /\ pth' = [pth EXCEPT !.reader = IF HasSuffix(pth.dumpPath, GzSuffix)
                                     THEN "gzip" ELSE "file",
                        !.pc = "sync"]
  /\ UNCHANGED pathFrame

\* buildRsyncArgs / buildLFTPScript: the two paths of the pair as the tool
\* gets them.
PathSync ==
  /\ pth.pc = "sync"
  /\ pth' = [pth EXCEPT !.toolSrc = RemoteSrc(pth.transport, ensureTrailingSlash(pth.src)),
                        !.toolDst = ensureTrailingSlash(pth.dst),
                        !.pc = "end"]
  /\ UNCHANGED pathFrame

NextPath ==
  \/ PathFetch
  \/ PathImport
  \/ PathSync

SpecPath == InitPath /\ [][NextPath]_vars

\* C24 as stated: a gzip-compressed artifact (a file source whose name ends
\* in .gz) is read through the gzip decompressor in step 4.
C24_GzipDecompressed ==
  (pth.reader # "none" /\ pth.gz) => pth.reader = "gzip"

\* C25 as stated: both paths of every sync pair reach the file-sync tool
\* ending in "/", and normalising a normalised path changes nothing.
C25_TrailingSlash ==
  pth.pc = "end" =>
    /\ HasSuffix(pth.toolSrc, <<"/">>)
    /\ HasSuffix(pth.toolDst, <<"/">>)
    /\ \A q \in {pth.src, pth.dst} :
         ensureTrailingSlash(ensureTrailingSlash(q)) = ensureTrailingSlash(q)

\* What holds of ensureTrailingSlash: a non-empty path comes back ending in
\* "/", the empty path comes back empty, and the function is idempotent.
C25_NonEmptySlash ==
  pth.pc = "end" =>
    \A q \in {pth.src, pth.dst} :
      /\ q # <<>> => HasSuffix(ensureTrailingSlash(q), <<"/">>)
      /\ q = <<>> => ensureTrailingSlash(q) = <<>>
      /\ HasSuffix(q, <<"/">>) => ensureTrailingSlash(q) = q
      /\ ensureTrailingSlash(ensureTrailingSlash(q)) = ensureTrailingSlash(q)

\* ------------------------------------------------------------------------
\* A scanner of streamCmdWithProgress on the output of the sync tool: scanCR
\* and the loop of scanProgress (files.go 182-225), for the one pair of a
\* profile (baseProgress 0, sliceSize 1)
\* ------------------------------------------------------------------------
MaxTokens == 2   \* chunks in the output the scanner reads

\* scanCR: the tokens of the whole output, split at every "\r" and "\n"; what
\* follows the last separator is a token unless it is empty.
ChunkSeps == {"\r", "\n"}

RECURSIVE Tokens(_)
Tokens(data) ==
  IF data = <<>> THEN <<>>
  ELSE IF \E i \in DOMAIN data : data[i] \in ChunkSeps
    THEN LET i == CHOOSE k \in DOMAIN data :
                    data[k] \in ChunkSeps /\ \A j \in 1..(k - 1) : data[j] \notin ChunkSeps
         IN  <<SubSeq(data, 1, i - 1)>> \o Tokens(SubSeq(data, i + 1, Len(data)))
    ELSE <<data>>

\* strings.TrimSpace
RECURSIVE TrimSpace(_)
TrimSpace(t) ==
  IF t = <<>> THEN t
  ELSE IF Head(t) = " " THEN TrimSpace(Tail(t))
  ELSE IF t[Len(t)] = " " THEN TrimSpace(SubSeq(t, 1, Len(t) - 1))
  ELSE t

\* reRsyncProgress.FindStringSubmatch(trimmed)[1]: the digits of the leftmost
\* match of (\d+)%, the empty string if there is no match.
FindPct(t) ==
  LET starts == {i \in DOMAIN t : IsDigit(t[i]) /\ HasAt(t, DigitsEnd(t, i) + 1, <<"%">>)}
  IN  IF starts = {} THEN <<>>
      ELSE LET i == CHOOSE k \in starts : \A j \in starts : k <= j
           IN  SubSeq(t, i, DigitsEnd(t, i))

\* A scanner without the continue after the progress event.
ChunkEventsAlsoLogged(tok) ==
  IF TrimSpace(tok) = <<>> THEN <<>>
  ELSE IF FindPct(TrimSpace(tok)) # <<>> /\ ~OutOfRange(FindPct(TrimSpace(tok)))
    THEN <<EvProgress(6, RsyncProgress(0, 1, Atoi(FindPct(TrimSpace(tok))))),
           EvLog(6, TrimSpace(tok))>>
  ELSE <<EvLog(6, TrimSpace(tok))>>

\* The body of the loop of scanProgress: the events it hands to sendEvent for
\* one token.
ChunkEvents(tok) ==
  IF TrimSpace(tok) = <<>> THEN <<>>
  ELSE IF FindPct(TrimSpace(tok)) # <<>> /\ ~OutOfRange(FindPct(TrimSpace(tok)))
    THEN <<EvProgress(6, RsyncProgress(0, 1, Atoi(FindPct(TrimSpace(tok)))))>>
  ELSE <<EvLog(6, TrimSpace(tok))>>

\* The events of evs at the positions S, in order.
Pick(evs, S) ==
  LET F[k \in 0..Len(evs)] ==
        IF k = 0 THEN <<>> ELSE IF k \in S THEN Append(F[k - 1], evs[k]) ELSE F[k - 1]
  IN  F[Len(evs)]

\* What reaches the channel of the events handed to sendEvent: all of them,
\* and once ctx is done any part of them.
Delivered(evs, c) ==
  IF c THEN {Pick(evs, S) : S \in SUBSET DOMAIN evs} ELSE {evs}

\* Chunks the tool may print.
ChunkBodies ==
  {<<>>, <<" ">>, <<"a">>, <<" ", "a", " ">>, <<"7", "%">>,
   <<"a", " ", "5", "0", "%", " ", "9">>, <<"1", "5", "0", "%">>,
   TwentyNines \o <<"%">>, <<"%">>, <<"5", " ", "%">>}

RECURSIVE Terminated(_)
Terminated(k) ==
  IF k = 0 THEN {<<>>}
  ELSE {b \o <<s>> \o r : b \in ChunkBodies, s \in ChunkSeps, r \in Terminated(k - 1)}

\* Outputs of up to n chunks; the last one may lack its separator.
ChunkStreams(n) ==
  UNION {Terminated(k) \cup {r \o b : r \in Terminated(k - 1), b \in ChunkBodies \ {<<>>}} :
           k \in 1..n}

InitChunk ==
  /\ EngineOff
  /\ CredOff
  /\ RwOff
  /\ file = NoFile
  /\ hl = NoHeadless
  /\ pth = NoPath
  /\ rp = NoPairs
  /\ stp = NoStrip
  /\ \E d \in ChunkStreams(MaxTokens) : chk = [NoChunk EXCEPT !.data = d, !.pc = "scan"]

chunkFrame == <<engVars, credVars, rwVars, file, hl, pth, rp, stp>>

\* ctx is cancelled while the tool runs.
ChunkCancel ==
  /\ chk.pc = "scan"
  /\ ~chk.cancelled
  /\ chk' = [chk EXCEPT !.cancelled = TRUE]
  /\ UNCHANGED chunkFrame

\* sc.Scan() returns the next token and the loop body runs.
ChunkScan ==
  /\ chk.pc = "scan"
  /\ chk.pos < Len(Tokens(chk.data))
  /\ \E sent \in Delivered(ChunkEvents(Tokens(chk.data)[chk.pos + 1]), chk.cancelled) :
       chk' = [chk EXCEPT !.pos = @ + 1, !.out = Append(@, sent)]
  /\ UNCHANGED chunkFrame

\* sc.Scan() returns false at the end of the output.
ChunkEnd ==
  /\ chk.pc = "scan"
  /\ chk.pos = Len(Tokens(chk.data))
  /\ chk' = [chk EXCEPT !.pc = "end"]
  /\ UNCHANGED chunkFrame

NextChunk ==
  \/ ChunkCancel
  \/ ChunkScan
  \/ ChunkEnd

SpecChunk == InitChunk /\ [][NextChunk]_vars

\* A chunk of blanks only; a chunk that contains a percentage pattern: a digit
\* with "%" right after it.
Blank(tok) == \A i \in DOMAIN tok : tok[i] = " "
PctAt(tok)  == {i \in DOMAIN tok : i > 1 /\ tok[i] = "%" /\ IsDigit(tok[i - 1])}
HasPct(tok) == PctAt(tok) # {}

\* The number before the first such "%": the digits from position i on, where
\* no digit precedes i.
PctNumber(tok) ==
  LET e == CHOOSE k \in PctAt(tok) : \A j \in PctAt(tok) : k <= j
      b == CHOOSE k \in 1..(e - 1) :
             /\ \A j \in k..(e - 1) : IsDigit(tok[j])
             /\ k > 1 => ~IsDigit(tok[k - 1])
  IN  SubSeq(tok, b, e - 1)

\* C34 as stated: every chunk read so far has produced exactly one event if it
\* is not blank, a progress event if it contains a percentage pattern and
\* else a log event with the trimmed text, and none if it is blank.
C34_OneEventPerChunk ==
  \A k \in 1..chk.pos :
    LET tok == Tokens(chk.data)[k]
    IN  /\ Blank(tok) => chk.out[k] = <<>>
        /\ (~Blank(tok) /\ HasPct(tok)) =>
              Len(chk.out[k]) = 1 /\ chk.out[k][1].type = "progress"
        /\ (~Blank(tok) /\ ~HasPct(tok)) => chk.out[k] = <<EvLog(6, TrimSpace(tok))>>

\* C34: every chunk read so far has produced at most one event, and exactly
\* one if it is not blank and ctx has not been cancelled: a progress event if
\* the number of its first percentage pattern fits an int, and else (no
\* pattern, or a number too large) a log event with the trimmed text. A blank
\* chunk has produced none.
C34_ChunkEvent ==
  \A k \in 1..chk.pos :
    LET tok == Tokens(chk.data)[k]
        asProgress == HasPct(tok) /\ ~OutOfRange(PctNumber(tok))
    IN  /\ Len(chk.out[k]) <= 1
        /\ Blank(tok) => chk.out[k] = <<>>
        /\ (~Blank(tok) /\ ~chk.cancelled) => Len(chk.out[k]) = 1
        /\ \A i \in DOMAIN chk.out[k] :
             IF asProgress
               THEN chk.out[k][i].type = "progress"
               ELSE chk.out[k][i] = EvLog(6, TrimSpace(tok))

\* A progress line that rewrites itself and a line of text: the 50% chunk
\* gave a progress event only, the text after the carriage return a log event.
C34_Witness ==
  /\ chk.pc = "end"
  /\ ~chk.cancelled
  /\ chk.data = <<"a", " ", "5", "0", "%", " ", "9", "\r", " ", "a", " ", "\n">>
  /\ chk.out = <<<<EvProgress(6, <<50, 100>>)>>, <<EvLog(6, <<"a">>)>>>>

\* A chunk whose percentage does not fit an int is logged.
C34_TooLarge ==
  /\ chk.pos = 1
  /\ ~chk.cancelled
  /\ Tokens(chk.data)[1] = TwentyNines \o <<"%">>
  /\ chk.out[1] = <<EvLog(6, TwentyNines \o <<"%">>)>>

\* ------------------------------------------------------------------------
\* The find/replace loop of step 2 around ResilientReplaceFile
\* (engine.go 53-63; tui/app.go 374-400): rp.art lists, for every rewrite that
\* has replaced the artifact, the pair and the lines written; rp.progs lists
\* the progress values sent.
\* ------------------------------------------------------------------------
InitPairs ==
  /\ EngineOff
  /\ CredOff
  /\ RwOff
  /\ file = NoFile
  /\ hl = NoHeadless
  /\ pth = NoPath
  /\ chk = NoChunk
  /\ stp = NoStrip
  /\ rp \in {[NoPairs EXCEPT !.n = n, !.lines = k, !.pc = "loop"] :
               n \in 0..MaxPairs, k \in 0..MaxFileLines}

pairsFrame == <<engVars, credVars, rwVars, hl, pth, chk, stp>>

\* for i, pair := range cfg.Replace: the "[i/n]" line, then the call of
\* ResilientReplaceFile(pair.Search, pair.Replace, dumpPath, ReplaceOptions{});
\* after the last pair the step function returns nil.
PairLoop ==
  /\ rp.pc = "loop"
  /\ IF rp.i < rp.n
       THEN /\ rp' = [rp EXCEPT !.pc = "file"]
            /\ file' = [NoFile EXCEPT !.search = <<"a">>, !.n = rp.lines, !.left = rp.lines,
                                      !.pc = "open"]
       ELSE /\ rp' = [rp EXCEPT !.pc = "end", !.res = "nil"]
            /\ UNCHANGED file
  /\ UNCHANGED pairsFrame

\* A loop that goes on after a failed pair.
PairFailedIgnored(r) == FALSE

\* if err := ResilientReplaceFile(...); err != nil
PairFailed(r) == r = "err"

\* ResilientReplaceFile returned: on an error the step function returns it,
\* else the loop goes on to its progress event. The artifact is the rewrite
\* of this pair if the call has renamed its temp file over it.
PairReturn ==
  /\ rp.pc = "file"
  /\ file.pc = "end"
  /\ rp' = [rp EXCEPT
              !.art = IF file.orig = "new"
                        THEN Append(@, [pair |-> rp.i + 1, lines |-> file.out])
                        ELSE @,
              !.pc  = IF PairFailed(file.res) THEN "end" ELSE "prog",
              !.res = IF PairFailed(file.res) THEN "err" ELSE @]
  /\ file' = NoFile
  /\ UNCHANGED pairsFrame

\* eventCh <- Event{Type: EvProgress, Step: 2, Progress: (i+1)/len(cfg.Replace)}
PairProgress ==
  /\ rp.pc = "prog"
  /\ rp' = [rp EXCEPT !.progs = Append(@, <<rp.i + 1, rp.n>>), !.i = @ + 1, !.pc = "loop"]
  /\ UNCHANGED <<pairsFrame, file>>

NextPairs ==
  \/ PairLoop
  \/ PairReturn
  \/ PairProgress
  \/ NextFile

SpecPairs == InitPairs /\ [][NextPairs]_vars

\* C35: the pairs are applied in configured order, each one rewriting the
\* whole artifact the pair before it left; the progress values are 1/n, 2/n,
\* ... in step with the pairs applied; when pair i+1 fails the loop ends at
\* once with the artifact as pairs 1..i left it and the progress values
\* 1/n .. i/n sent; when the loop ends without error every pair was applied.
C35_PairsInOrder ==
  /\ rp.art = [k \in 1..Len(rp.art) |-> [pair |-> k, lines |-> rp.lines]]
  /\ rp.progs = [k \in 1..Len(rp.progs) |-> <<k, rp.n>>]
  /\ Len(rp.progs) = rp.i
  /\ Len(rp.art) = IF rp.pc = "prog" THEN rp.i + 1 ELSE rp.i
  /\ rp.res = "err" => rp.pc = "end" /\ rp.i < rp.n /\ ~ENABLED NextPairs
  /\ rp.res = "nil" => rp.pc = "end" /\ rp.i = rp.n

\* The second of two pairs failed: the artifact is what the first pair made
\* of it and the one progress value sent is 1/2.
C35_Witness ==
  /\ rp.res = "err"
  /\ rp.n = 2
  /\ rp.lines = 2
  /\ rp.art = <<[pair |-> 1, lines |-> 2]>>
  /\ rp.progs = <<<<1, 2>>>>

\* ------------------------------------------------------------------------
\* The comment stripper on the lines of a dump (database.go 776-816). A line
\* is a sequence of pieces: "M" is one /*M! ... */ comment, "q" a piece of SQL
\* text, " " white space and ";" a semicolon.
\* ------------------------------------------------------------------------
MaxStripLines == 2   \* lines of the dump

\* spaces, at most one semicolon, spaces: \s*;?\s*
IsTail(t) ==
  /\ \A i \in DOMAIN t : t[i] \in {" ", ";"}
  /\ Cardinality({i \in DOMAIN t : t[i] = ";"}) <= 1

\* A line that is entirely one comment: white space, the comment, the tail.
OneCommentLine(l) ==
  \E i \in DOMAIN l :
    /\ l[i] = "M"
    /\ \A k \in 1..(i - 1) : l[k] = " "
    /\ IsTail(SubSeq(l, i + 1, Len(l)))

\* mariaDBLineRe.Match(line), (?m)^\s*/\*M!.*?\*/\s*;?\s*$: after leading
\* white space the line opens a comment at i, and some comment at j >= i
\* closes with nothing but the tail after it. The lazy .*? may run over the
\* end of the comment it started in.
LineMatch(l) ==
  \E i, j \in DOMAIN l :
    /\ i <= j
    /\ l[i] = "M"
    /\ l[j] = "M"
    /\ \A k \in 1..(i - 1) : l[k] = " "
    /\ IsTail(SubSeq(l, j + 1, Len(l)))

\* mariaDBCommentRe.ReplaceAll(line, nil): every comment is deleted.
IsNotComment(x) == x # "M"
Cleaned(l) == SelectSeq(l, IsNotComment)

\* Lines a dump may hold.
StripLines ==
  {<<>>, <<"q">>, <<"M">>, <<" ", "M", ";", " ">>, <<"q", "M", "q">>, <<"q", " ", "M">>,
   <<"M", "q", "M">>, <<"M", " ", "q">>}

StripFiles(n) == UNION {[1..k -> StripLines] : k \in 0..n}

InitStrip ==
  /\ EngineOff
  /\ CredOff
  /\ RwOff
  /\ file = NoFile
  /\ hl = NoHeadless
  /\ pth = NoPath
  /\ chk = NoChunk
  /\ rp = NoPairs
  /\ \E f \in StripFiles(MaxStripLines) : stp = [NoStrip EXCEPT !.lines = f, !.pc = "scan"]

stripFrame == <<engVars, credVars, rwVars, file, hl, pth, chk, rp>>

\* One round of the loop: a full-line comment is counted and skipped, any
\* other line is written to the pipe with its comments deleted; a write to a
\* pipe whose reader is gone ends the goroutine.
StripScan ==
  /\ stp.pc = "scan"
  /\ stp.pos < Len(stp.lines)
  /\ IF LineMatch(stp.lines[stp.pos + 1])
       THEN stp' = [stp EXCEPT !.pos = @ + 1, !.stripped = @ + 1]
       ELSE \/ stp' = [stp EXCEPT !.pos = @ + 1,
                                  !.out = Append(@, Cleaned(stp.lines[stp.pos + 1]))]
            \/ stp' = [stp EXCEPT !.pc = "broken"]
  /\ UNCHANGED stripFrame

\* After the loop: the count goes to logFn if it is not zero.
StripEnd ==
  /\ stp.pc = "scan"
  /\ stp.pos = Len(stp.lines)
  /\ stp' = [stp EXCEPT !.pc = "end", !.logged = IF stp.stripped > 0 THEN stp.stripped ELSE @]
  /\ UNCHANGED stripFrame

NextStrip ==
  \/ StripScan
  \/ StripEnd

SpecStrip == InitStrip /\ [][NextStrip]_vars

\* C36 as stated (its first part): the output is the input in its order
\* without the lines that are entirely a comment, and with the comments of
\* every other line deleted; the lines dropped are counted and the count is
\* what goes to the log.
C36_StripsCommentsOnly ==
  stp.pc = "end" =>
    /\ Len(stp.out) = Len(SelectSeq(stp.lines, LAMBDA l : ~OneCommentLine(l)))
    /\ stp.out = [k \in DOMAIN stp.out |->
                    Cleaned(SelectSeq(stp.lines, LAMBDA l : ~OneCommentLine(l))[k])]
    /\ stp.stripped = Len(stp.lines) - Len(stp.out)
    /\ stp.stripped > 0 => stp.logged = stp.stripped

\* What the stripper does do: the lines written are the lines the pattern
\* does not match, in order and with their comments deleted, and the count
\* logged is the number of lines the pattern matched.
C36_StripsMatched ==
  stp.pc = "end" =>
    /\ stp.out = [k \in DOMAIN stp.out |->
                    Cleaned(SelectSeq(stp.lines, LAMBDA l : ~LineMatch(l))[k])]
    /\ Len(stp.out) = Len(SelectSeq(stp.lines, LAMBDA l : ~LineMatch(l)))
    /\ stp.stripped = Len(stp.lines) - Len(stp.out)
    /\ stp.stripped > 0 => stp.logged = stp.stripped

\* A line with a statement between two comments is dropped and counted.
C36_SqlDropped ==
  /\ stp.pc = "end"
  /\ stp.lines = <<<<"q">>, <<"M", "q", "M">>>>
  /\ stp.out = <<<<"q">>>>
  /\ stp.logged = 1

====
